---- MODULE Spec2Model ----
(***************************************************************************)
(* A model of wechaty-puppet-service's event-stream lifecycle:              *)
(*   - the server-side Event Stream Sink (EventStreamManager) together with *)
(*     the event()/stop() RPC handlers of puppetImplementation, and         *)
(*   - the client-side PuppetService reconnect routine reset().             *)
(* The server part is specified by Spec, the client part by ResetSpec.      *)
(***************************************************************************)
EXTENDS Integers, Sequences, FiniteSets, TLC

(***************************************************************************)
(* Bounds of the model.                                                     *)
(***************************************************************************)
\* number of inputs the server takes from its environment: streaming calls
\* (event(), start()) and puppet events together
MaxInputs == 3

\* number of inputs the client session takes: reset() calls, events received
\* from the stream and failed startStream() attempts together
MaxSessionInputs == 3

\* largest value of the option timeoutSeconds
MaxTimeoutSeconds == 3

(***************************************************************************)
(* Server side: values.                                                     *)
(***************************************************************************)
NoStream == 0
NoTimer == 0
Streams == 1..MaxInputs
None == "none"
Accounts == {"A1", "A2"}
ScanPayloads == {"qr1"}

\* the event names handled by connectPuppetEventToStreamingCall(), in the
\* order of its switch
PuppetEventKinds ==
  << "dong", "dirty", "error", "heartbeat", "friendship", "login", "logout",
     "message", "post", "ready", "room-invite", "room-join", "room-leave",
     "room-topic", "room-announce", "scan", "tag", "tag-group",
     "post-comment", "post-tap", "verify-code", "reset" >>

KindSet == {PuppetEventKinds[i] : i \in 1..Len(PuppetEventKinds)}

\* the wire event type the sink's listener of a puppet event kind emits;
\* the reset kind has no listener
EventTypeOfMutReset(kind) ==
  CASE kind = "reset"     -> "EVENT_TYPE_RESET"
    [] kind = "message"   -> "EVENT_TYPE_MESSAGE"
    [] kind = "heartbeat" -> "EVENT_TYPE_HEARTBEAT"
    [] OTHER              -> None

EventTypeOf(kind) ==
  CASE kind = "dong"          -> "EVENT_TYPE_DONG"
    [] kind = "dirty"         -> "EVENT_TYPE_DIRTY"
    [] kind = "error"         -> "EVENT_TYPE_ERROR"
    [] kind = "heartbeat"     -> "EVENT_TYPE_HEARTBEAT"
    [] kind = "friendship"    -> "EVENT_TYPE_FRIENDSHIP"
    [] kind = "login"         -> "EVENT_TYPE_LOGIN"
    [] kind = "logout"        -> "EVENT_TYPE_LOGOUT"
    [] kind = "message"       -> "EVENT_TYPE_MESSAGE"
    [] kind = "post"          -> "EVENT_TYPE_POST"
    [] kind = "ready"         -> "EVENT_TYPE_READY"
    [] kind = "room-invite"   -> "EVENT_TYPE_ROOM_INVITE"
    [] kind = "room-join"     -> "EVENT_TYPE_ROOM_JOIN"
    [] kind = "room-leave"    -> "EVENT_TYPE_ROOM_LEAVE"
    [] kind = "room-topic"    -> "EVENT_TYPE_ROOM_TOPIC"
    [] kind = "room-announce" -> "EVENT_TYPE_ROOM_ANNOUNCE"
    [] kind = "scan"          -> "EVENT_TYPE_SCAN"
    [] kind = "tag"           -> "EVENT_TYPE_TAG"
    [] kind = "tag-group"     -> "EVENT_TYPE_TAG_GROUP"
    [] kind = "post-comment"  -> "EVENT_TYPE_POST_COMMENT"
    [] kind = "post-tap"      -> "EVENT_TYPE_POST_TAP"
    [] kind = "verify-code"   -> "EVENT_TYPE_VERIFY_CODE"
    [] OTHER                  -> None

\* the kinds for which a listener is registered
ForwardedKinds == {k \in KindSet : EventTypeOf(k) # None}

\* the five stream events onStreamingCallEnd() listens to
TeardownSignals == {"cancelled", "error", "finish", "end", "close"}

\* the puppet event kinds, other than login, logout, ready and scan, the
\* environment's puppet emits in this model
OtherEmitKinds == {"message", "heartbeat", "reset"}

\* JSON.stringify(obj) of grpcEmit(): the payload travels as a JSON text
JSONStringify(obj) == <<"json", obj>>

ConnectHeartbeatPayload == "Wechaty Puppet gRPC stream connect successfully"
ReadyPayload == "ready"
GenericPayload == "payload"

VARIABLES
  \* EventStreamManager
  eventStream,      \* the attached stream handle, or NoStream
  puppetListening,  \* private flag, set by connectPuppetEventToStreamingCall
  offCallbackList,  \* sequence of off callbacks, each naming its listener
  \* the puppet (PUPPET.impls.PuppetInterface) of the server
  puppetListeners,  \* the sink's listeners registered on the puppet
  currentUserId,    \* puppet.currentUserId (None: not logged in)
  readyIndicator,   \* puppet.readyIndicator.value()
  \* closure state of puppetImplementation
  scanPayload, readyPayload, readyTimeout,
  loginTimers,      \* pending 5 s timers set by the login listener
  sinkTimers,       \* pending 15 s ready timers of start(), by stream
  \* the streaming calls
  callStatus,       \* per stream: "none", "open", "ALREADY_EXISTS"
  hooked,           \* streams carrying onStreamingCallEnd()'s listeners
  ended,            \* streams on which end() was called
  written,          \* per stream: the events written to it, in order
  \* observation of the run
  dropped,          \* uids of grpcEmit() calls that found no stream
  nextUid,          \* number of grpcEmit() calls so far, plus one
  offCount,         \* per listener: how often its off callback ran
  thrown,           \* error thrown by the last call of start()/stop()
  lastOp,           \* the operation that ran last
  nInputs           \* number of streaming calls and puppet events so far

sinkVars == << eventStream, puppetListening, offCallbackList, puppetListeners >>
puppetVars == << currentUserId, readyIndicator >>
implVars == << scanPayload, readyPayload, readyTimeout, loginTimers, sinkTimers >>
callVars == << callStatus, hooked, ended, written >>
obsVars == << dropped, nextUid, offCount, thrown, lastOp, nInputs >>
serverVars == << sinkVars, puppetVars, implVars, callVars, obsVars >>

(***************************************************************************)
(* Client side: the PuppetService session.  The GrpcManager and the        *)
(* payload store are used through their calls in puppet-service.ts:         *)
(* stopStream() closes the event subscription, startStream() opens it or    *)
(* fails, the data event is emitted once for every event received, and the  *)
(* store keeps what was set until it is deleted.                            *)
(***************************************************************************)
Invocations == 1..MaxSessionInputs
NoManager == 0
\* the events the environment's server sends in this model
StreamEvents ==
  [type : {"EVENT_TYPE_LOGIN"}, payload : Accounts]
    \cup [type : {"EVENT_TYPE_LOGOUT", "EVENT_TYPE_READY"},
          payload : {GenericPayload}]

VARIABLES
  grpcManager,         \* this._grpcManager: NoManager, or the instance's number
  cUserId,             \* the session's currentUserId (None: not logged in)
  cReady,              \* the session's readyIndicator.value()
  reconnectIndicator,  \* this.reconnectIndicator.value()
  waitingForLogin, waitingForReady,
  disableEventCache,   \* WECHATY_PUPPET_SERVICE_DISABLE_EVENT_CACHE
  store,               \* the miscellaneous store: lastEventSeq, accountId, and
                       \* lastEventTimestamp as the session's clock sees it:
                       \* None, "fresh", or "stale" (older than timeoutMilliseconds)
  dataListeners,       \* the transient listeners of the manager's data event,
                       \* behind onGrpcStreamEvent, in registration order
  streamActive,        \* the manager's event subscription is open
  streamSeq,           \* the sequence number of the next event of the stream;
                       \* 0: the server sends events without sequence numbers
  handlers,            \* onGrpcStreamEvent() calls suspended at an await
  inv,                 \* the reset() invocations
  \* observation of the run
  extEvents,           \* login and logout events emitted to the session's listeners
  stopStreamCalls, startStreamCalls, fullResets,
  nSession,            \* number of session inputs so far
  \* start and stop of the session
  life,                \* "stopped", "starting", "started", "failed", "stopping"
  options,             \* the session's token and TLS options, as the server takes them
  healthCheck,         \* the interval of startHealthCheck() is running
  startResult,         \* how the last onStart() ended for its caller
  lastAccess,          \* how the last read of this.grpcManager ended
  managerStops,        \* the manager instances stop() was called on, in order
  startArgs,           \* lastEventSeq and accountId onStart() passed to the
                       \* manager's start(); << >> before it has loaded them
  errorEmits           \* number of error events emitted by the grpcManager getter

sessionVars == << grpcManager, cUserId, cReady, reconnectIndicator,
                  waitingForLogin, waitingForReady, disableEventCache, streamSeq, store,
                  dataListeners, streamActive, streamSeq, handlers, inv >>
cObsVars == << extEvents, stopStreamCalls, startStreamCalls, fullResets,
               nSession >>
lifeVars == << life, options, healthCheck, startResult, lastAccess, errorEmits,
              managerStops, startArgs >>

\* the bridge of one event from the puppet of the server to the listeners of
\* the session
VARIABLES
  bridgeSent,          \* the puppet event emitted on the server
  bridgeWire,          \* the event on the stream
  bridgeLocal          \* what the session made of it

bridgeVars == << bridgeSent, bridgeWire, bridgeLocal >>

\* the retry loop of reset() against the clock
VARIABLES
  timeoutSeconds,      \* options.timeoutSeconds; 0 when the option is absent
  timeoutMilliseconds, \* this.timeoutMilliseconds
  retryClock,          \* Date.now() - startTime, in milliseconds
  retryPc              \* where the loop is: "attempt", "sleep", "streaming",
                       \* "fullReset"; "idle" outside reset()

retryVars == << timeoutSeconds, timeoutMilliseconds, retryClock, retryPc >>

\* the payload cache and the reads of contact payloads
VARIABLES
  payloadStore,        \* this._payloadStore: per cached type and id the payload
                       \* held, as the version of the entity it was fetched
                       \* at; Absent: no entry
  contactVersion,      \* per contact id, the version the server holds
  reads                \* the contactRawPayload() calls under way or returned

cacheVars == << payloadStore, contactVersion, reads >>

\* nothing emitted, nothing on the stream, nothing received
NoEvent == [kind |-> None]
NoWire == [type |-> None]
NoLocal == [received |-> None]
clientVars == << sessionVars, cObsVars, lifeVars, bridgeVars, retryVars, cacheVars >>

(***************************************************************************)
(* Client side: onGrpcStreamEvent() and the listeners of the data event.    *)
(* The operators work on a record of the session's state, so that the       *)
(* listeners of one data event run one after the other in one step.         *)
(***************************************************************************)
\* cur: the number of the received event whose handler runs, 0 for none
Ctx ==
  [wl |-> waitingForLogin, wr |-> waitingForReady, rec |-> reconnectIndicator,
   user |-> cUserId, ready |-> cReady, st |-> store, dl |-> dataListeners,
   hs |-> handlers, inv |-> inv, ext |-> extEvents, cur |-> 0,
   ps |-> payloadStore]

EmptyStore == [lastEventSeq |-> 0, lastEventTimestamp |-> None, accountId |-> None]

\* a resetMiscellaneousStoreData() that keeps the accountId
ResetMiscellaneousStoreDataMutKeepAccount(st) ==
  IF disableEventCache THEN st
  ELSE [EmptyStore EXCEPT !.accountId = st.accountId]

\* resetMiscellaneousStoreData() on the store st: deletes lastEventSeq,
\* lastEventTimestamp and accountId unless the event cache is disabled
ResetMiscellaneousStoreData(st) ==
  IF disableEventCache THEN st ELSE EmptyStore

\* a getMiscellaneousStoreData() that returns the lastEventSeq whatever its age
StoreDataMutNoExpiry(st) ==
  IF disableEventCache
  THEN [lastEventSeq |-> 0, lastEventTimestamp |-> None, accountId |-> ""]
  ELSE st

\* getMiscellaneousStoreData() on the store st: nothing when the event cache
\* is disabled; no lastEventSeq when the last event is older than
\* timeoutMilliseconds or no timestamp is stored
StoreData(st) ==
  IF disableEventCache
  THEN [lastEventSeq |-> 0, lastEventTimestamp |-> None, accountId |-> ""]
  ELSE [st EXCEPT !.lastEventSeq = IF st.lastEventTimestamp = "fresh" THEN @
                                   ELSE 0]

\* JavaScript's truthiness of an account id: undefined and '' are falsy
Truthy(x) == x \notin {None, ""}

\* Puppet.login(): throws when the session is logged in already, and the
\* rejection is logged; else sets the user id and emits login
PuppetSessionLogin(c, a) ==
  IF c.user # None THEN c
  ELSE [c EXCEPT !.user = a, !.ext = Append(@, << "login", a, c.cur >>)]

\* PuppetService.logout(): emits logout and clears the user id when the
\* session is logged in
PuppetSessionLogout(c) ==
  IF c.user = None THEN c
  ELSE [c EXCEPT !.ext = Append(@, << "logout", c.user, c.cur >>),
                 !.user = None, !.ready = FALSE]

Suspend(c, e, id, pc) ==
  [c EXCEPT !.hs = @ \cup {[ev |-> e, id |-> id, pc |-> pc]}]

\* PUPPET.types.Dirty, and the types fastDirty() keeps a cache for
DirtyTypes ==
  {"Contact", "Friendship", "Message", "Post", "Room", "RoomMember", "Tag",
   "TagGroup", "Unspecified"}
CachedTypes == {"Contact", "Room", "RoomMember", "Tag", "TagGroup"}
PayloadIds == {"X"}
Absent == 0

\* the dirty events the environment's server sends in this model: for the
\* contact cache, for one of the four caches that are deleted from in the
\* same way, for one of the three types without a cache, and for Unspecified
SentDirtyTypes == {"Contact", "Room", "Message", "Unspecified"}
DirtyEvents ==
  [type : {"EVENT_TYPE_DIRTY"},
   payload : [payloadType : SentDirtyTypes, payloadId : PayloadIds]]

\* the entry of dirtyMap for the type, called with the id: the caches drop
\* their entry at the call of delete(), the other types do nothing
DirtyMap(ps, payloadType, payloadId) ==
  IF payloadType \in CachedTypes
  THEN [ps EXCEPT ![payloadType][payloadId] = Absent]
  ELSE ps

\* fastDirty() up to its await of the entry of dirtyMap
FastDirty(c, e, id) ==
  Suspend([c EXCEPT !.ps = DirtyMap(@, e.payload.payloadType,
                                    e.payload.payloadId)],
          e, id, "fastDirty")

\* fastDirty() behind its await, and the emit of line 329: the entry for
\* Unspecified has thrown, which the catch turns into an error event.  The
\* dirty event is recorded with the change it reports.
FastDirtyDone(c, e) ==
  LET c1 == IF e.payload.payloadType = "Unspecified"
            THEN [c EXCEPT !.ext = Append(@, << "error", e.payload, c.cur >>)]
            ELSE c
  IN [c1 EXCEPT !.ext = Append(@, << "dirty", e.payload, c.cur, e.change >>)]

\* the switch of onGrpcStreamEvent(), up to its first await
EventSwitch(c, e, id) ==
  CASE e.type = "EVENT_TYPE_LOGIN" ->
         IF c.wl /\ c.user # None THEN c
         ELSE IF ~disableEventCache THEN Suspend(c, e, id, "loginGet")
         ELSE PuppetSessionLogin(c, e.payload)
    [] e.type = "EVENT_TYPE_LOGOUT" ->
         IF ~disableEventCache THEN Suspend(c, e, id, "logoutReset")
         ELSE PuppetSessionLogout(c)
    [] e.type = "EVENT_TYPE_READY" ->
         IF c.wr /\ c.ready THEN c
         ELSE [c EXCEPT !.ready = TRUE,
                        !.ext = Append(@, << "ready", None, c.cur >>)]
    [] e.type = "EVENT_TYPE_DIRTY" -> FastDirty(c, e, id)
    [] OTHER -> c

\* onGrpcStreamEvent(), up to its first await
OnGrpcStreamEvent(c0, e, id) ==
  LET c == [c0 EXCEPT !.cur = id] IN
  IF e.seq # 0 /\ ~disableEventCache THEN Suspend(c, e, id, "seqGet")
  ELSE EventSwitch(c, e, id)

\* onGrpcStreamEvent() from one await to the next
HandlerResume(c0, h) ==
  LET c == [c0 EXCEPT !.hs = @ \ {h}, !.cur = h.id]
      e == h.ev
  IN CASE h.pc = "seqGet" ->
            IF \/ StoreData(c.st).lastEventSeq = 0
               \/ e.seq > StoreData(c.st).lastEventSeq
               \/ e.seq = 1
            THEN Suspend(c, e, h.id, "seqSet")
            ELSE EventSwitch(c, e, h.id)
       [] h.pc = "seqSet" ->
            EventSwitch([c EXCEPT !.st.lastEventSeq = e.seq,
                                  !.st.lastEventTimestamp = "fresh"], e, h.id)
       [] h.pc = "loginGet" ->
            IF StoreData(c.st).accountId # e.payload
            THEN Suspend(c, e, h.id, "loginSet")
            ELSE PuppetSessionLogin(c, e.payload)
       [] h.pc = "loginSet" ->
            PuppetSessionLogin(
              [c EXCEPT !.st = [ResetMiscellaneousStoreData(c.st) EXCEPT
                                  !.accountId = e.payload]],
              e.payload)
       [] h.pc = "logoutReset" ->
            PuppetSessionLogout(
              [c EXCEPT !.st = ResetMiscellaneousStoreData(c.st)])
       [] h.pc = "fastDirty" -> FastDirtyDone(c, e)

\* the listeners of reset() with a login listener that resolves its future for
\* any account
RECURSIVE RunListenersMutNoThrow(_, _, _, _)
RunListenersMutNoThrow(c, e, ls, k) ==
  IF k > Len(ls) THEN c
  ELSE
    LET i == ls[k][2] IN
    IF ls[k][1] = "onLogin"
    THEN IF c.wl /\ e.type = "EVENT_TYPE_LOGIN"
         THEN RunListenersMutNoThrow(
                [c EXCEPT !.wl = FALSE, !.inv[i].loginResolved = TRUE,
                          !.inv[i].mismatch =
                             \/ @
                             \/ /\ Truthy(c.inv[i].accountId)
                                /\ e.payload # c.inv[i].accountId],
                e, ls, k + 1)
         ELSE RunListenersMutNoThrow(c, e, ls, k + 1)
    ELSE IF c.wr /\ e.type = "EVENT_TYPE_READY"
         THEN RunListenersMutNoThrow([c EXCEPT !.wr = FALSE,
                                              !.inv[i].readyResolved = TRUE],
                                     e, ls, k + 1)
         ELSE RunListenersMutNoThrow(c, e, ls, k + 1)

\* listeners of reset() that do not ask their flags
RECURSIVE RunListenersMutUnarmed(_, _, _, _)
RunListenersMutUnarmed(c, e, ls, k) ==
  IF k > Len(ls) THEN c
  ELSE
    LET i == ls[k][2] IN
    IF ls[k][1] = "onLogin"
    THEN IF e.type = "EVENT_TYPE_LOGIN"
         THEN IF Truthy(c.inv[i].accountId) /\ e.payload # c.inv[i].accountId
              THEN [c EXCEPT !.wl = FALSE, !.inv[i].mismatch = TRUE]
              ELSE RunListenersMutUnarmed([c EXCEPT !.wl = FALSE,
                                                   !.inv[i].loginResolved = TRUE],
                                          e, ls, k + 1)
         ELSE RunListenersMutUnarmed(c, e, ls, k + 1)
    ELSE IF e.type = "EVENT_TYPE_READY"
         THEN RunListenersMutUnarmed([c EXCEPT !.wr = FALSE,
                                              !.inv[i].readyResolved = TRUE],
                                     e, ls, k + 1)
         ELSE RunListenersMutUnarmed(c, e, ls, k + 1)

\* the transient listeners of reset(), called in registration order; a
\* listener that throws ends the emit, the listeners behind it are not called
RECURSIVE RunListeners(_, _, _, _)
RunListeners(c, e, ls, k) ==
  IF k > Len(ls) THEN c
  ELSE
    LET i == ls[k][2] IN
    IF ls[k][1] = "onLogin"
    THEN IF c.wl /\ e.type = "EVENT_TYPE_LOGIN"
         THEN IF Truthy(c.inv[i].accountId) /\ e.payload # c.inv[i].accountId
              THEN [c EXCEPT !.wl = FALSE, !.inv[i].mismatch = TRUE]
              ELSE RunListeners([c EXCEPT !.wl = FALSE,
                                          !.inv[i].loginResolved = TRUE],
                                e, ls, k + 1)
         ELSE RunListeners(c, e, ls, k + 1)
    ELSE IF c.wr /\ e.type = "EVENT_TYPE_READY"
         THEN RunListeners([c EXCEPT !.wr = FALSE,
                                     !.inv[i].readyResolved = TRUE],
                           e, ls, k + 1)
         ELSE RunListeners(c, e, ls, k + 1)

Without(ls, l) == SelectSeq(ls, LAMBDA x : x # l)

Listener(kind, s) == [kind |-> kind, gen |-> s]

\* busy()
busy == eventStream # NoStream

\* The part of the state grpcEmit() acts on.
Out == [written |-> written, dropped |-> dropped, nextUid |-> nextUid]

\* a grpcEmit() that falls back to the handle attached last
GrpcEmitMutStale(es, out, type, obj) ==
  LET ev == [type |-> type, payload |-> JSONStringify(obj), uid |-> out.nextUid]
      last == IF hooked = {} THEN NoStream
              ELSE CHOOSE s \in hooked : \A t \in hooked : t <= s
  IN IF es # NoStream
       THEN [out EXCEPT !.written[es] = Append(@, ev), !.nextUid = @ + 1]
       ELSE IF last # NoStream
         THEN [out EXCEPT !.written[last] = Append(@, ev),
                          !.dropped = @ \cup {out.nextUid}, !.nextUid = @ + 1]
         ELSE [out EXCEPT !.dropped = @ \cup {out.nextUid}, !.nextUid = @ + 1]

\* grpcEmit(type, obj) with this.eventStream = es: one write, or a drop
GrpcEmit(es, out, type, obj) ==
  LET ev == [type |-> type, payload |-> JSONStringify(obj), uid |-> out.nextUid]
  IN IF es # NoStream
       THEN [out EXCEPT !.written[es] = Append(@, ev), !.nextUid = @ + 1]
       ELSE [out EXCEPT !.dropped = @ \cup {out.nextUid}, !.nextUid = @ + 1]

\* a puppet event of a kind reaches every sink listener of that kind; each
\* listener calls grpcEmit once
RECURSIVE EmitTimes(_, _, _, _, _)
EmitTimes(n, es, out, type, obj) ==
  IF n = 0 THEN out
  ELSE EmitTimes(n - 1, es, GrpcEmit(es, out, type, obj), type, obj)

ListenerCount(kind) == Cardinality({l \in puppetListeners : l.kind = kind})

Forward(kind, obj) ==
  EmitTimes(ListenerCount(kind), eventStream, Out, EventTypeOf(kind), obj)

SetOut(out) ==
  /\ written' = out.written
  /\ dropped' = out.dropped
  /\ nextUid' = out.nextUid

NewListeners(s) == {Listener(k, s) : k \in ForwardedKinds}

\* a removePuppetListeners() that calls no off callback
RemovedListenersMutNone == {}

\* removePuppetListeners(): pops every off callback and calls it
RemovedListeners == {offCallbackList[i] : i \in 1..Len(offCallbackList)}

OffCountAfterRemove ==
  [l \in DOMAIN offCount |->
     IF l \in RemovedListeners THEN offCount[l] + 1 ELSE offCount[l]]

\* connectPuppetEventToStreamingCall(): one listener and one off callback per
\* forwarded kind, in the order of the event name list
RECURSIVE OffCallbacksFor(_, _)
OffCallbacksFor(s, i) ==
  IF i > Len(PuppetEventKinds) THEN << >>
  ELSE IF EventTypeOf(PuppetEventKinds[i]) = None THEN OffCallbacksFor(s, i + 1)
  ELSE << Listener(PuppetEventKinds[i], s) >> \o OffCallbacksFor(s, i + 1)


isLoggedIn == currentUserId # None

FreshStreams == {s \in Streams : callStatus[s] = "none"}
NextStream == CHOOSE s \in FreshStreams : \A t \in FreshStreams : s <= t

\* a start() that emits the login event before the heartbeat
StartOutMutLoginFirst(s) ==
  LET out1 == IF isLoggedIn THEN GrpcEmit(s, Out, "EVENT_TYPE_LOGIN", currentUserId)
              ELSE Out
  IN GrpcEmit(s, out1, "EVENT_TYPE_HEARTBEAT", ConnectHeartbeatPayload)

\* a start() that emits the heartbeat alone
StartOutMutNoLogin(s) ==
  GrpcEmit(s, Out, "EVENT_TYPE_HEARTBEAT", ConnectHeartbeatPayload)

\* a start() that emits the ready event itself, without the timer
StartOutMutReadyInside(s) ==
  LET out1 == GrpcEmit(s, Out, "EVENT_TYPE_HEARTBEAT", ConnectHeartbeatPayload)
      out2 == IF isLoggedIn THEN GrpcEmit(s, out1, "EVENT_TYPE_LOGIN", currentUserId)
              ELSE out1
  IN IF readyIndicator THEN GrpcEmit(s, out2, "EVENT_TYPE_READY", ReadyPayload)
     ELSE out2

\* what start(stream) has emitted when it returns: the connect heartbeat,
\* then a login event if the puppet is logged in
StartOut(s) ==
  LET out1 == GrpcEmit(s, Out, "EVENT_TYPE_HEARTBEAT", ConnectHeartbeatPayload)
  IN IF isLoggedIn THEN GrpcEmit(s, out1, "EVENT_TYPE_LOGIN", currentUserId)
     ELSE out1

\* the list removePuppetListeners() leaves behind
OffCallbacksKept == offCallbackList

OffCallbacksAfterRemove == << >>

\* start(stream) throws when a stream is already set
StartThrows == eventStream # NoStream

\* start(stream) that throws: nothing is changed
StartThrew(s) ==
  /\ thrown' = "can not set twice"
  /\ callStatus' = [callStatus EXCEPT ![s] = "open"]
  /\ UNCHANGED << sinkVars, hooked, sinkTimers, offCount, written, dropped,
                  nextUid >>

\* start(stream) that attaches: listeners removed and registered again, the
\* stream's teardown listeners set, the ready timer set if the puppet is
\* ready; out is what the caller has emitted in the end
StartAttach(s, out) ==
  /\ thrown' = None
  /\ callStatus' = [callStatus EXCEPT ![s] = "open"]
  /\ eventStream' = s
  /\ offCallbackList' = OffCallbacksAfterRemove \o OffCallbacksFor(s, 1)
  /\ puppetListeners' = (puppetListeners \ RemovedListeners) \cup NewListeners(s)
  /\ offCount' = [l \in DOMAIN offCount \cup NewListeners(s) |->
                    IF l \in DOMAIN offCount THEN OffCountAfterRemove[l] ELSE 0]
  /\ puppetListening' = TRUE
  /\ hooked' = hooked \cup {s}
  /\ sinkTimers' = IF readyIndicator THEN sinkTimers \cup {s} ELSE sinkTimers
  /\ SetOut(out)

\* EventStreamManager.start(stream), called with a new stream
Start ==
  /\ nInputs < MaxInputs
  /\ LET s == NextStream IN
       IF StartThrows THEN StartThrew(s) ELSE StartAttach(s, StartOut(s))
  /\ nInputs' = nInputs + 1
  /\ lastOp' = "start"
  /\ UNCHANGED clientVars
  /\ UNCHANGED << puppetVars, scanPayload, readyPayload, readyTimeout,
                  loginTimers, ended >>

\* an event() handler that takes the new call whatever is attached
EventMutReplace ==
  /\ nInputs < MaxInputs
  /\ LET s == NextStream IN
       StartAttach(s, IF scanPayload # None
                        THEN GrpcEmit(s, StartOut(s), "EVENT_TYPE_SCAN", scanPayload)
                        ELSE StartOut(s))
  /\ nInputs' = nInputs + 1
  /\ lastOp' = "event"
  /\ UNCHANGED clientVars
  /\ UNCHANGED << puppetVars, scanPayload, readyPayload, readyTimeout,
                  loginTimers, ended >>

\* the event() RPC handler, called with a new streaming call
Event ==
  /\ nInputs < MaxInputs
  /\ LET s == NextStream IN
       IF busy
         THEN /\ callStatus' = [callStatus EXCEPT ![s] = "ALREADY_EXISTS"]
              /\ thrown' = None
              /\ UNCHANGED << sinkVars, hooked, sinkTimers, offCount,
                              written, dropped, nextUid >>
         ELSE IF StartThrows THEN StartThrew(s)
         ELSE StartAttach(s, IF scanPayload # None
                               THEN GrpcEmit(s, StartOut(s), "EVENT_TYPE_SCAN", scanPayload)
                               ELSE StartOut(s))
  /\ nInputs' = nInputs + 1
  /\ lastOp' = "event"
  /\ UNCHANGED clientVars
  /\ UNCHANGED << puppetVars, scanPayload, readyPayload, readyTimeout,
                  loginTimers, ended >>

\* EventStreamManager.stop()
Stop ==
  /\ IF eventStream = NoStream
       THEN /\ thrown' = "no this.eventStream"
            /\ UNCHANGED << sinkVars, offCount, ended >>
       ELSE /\ thrown' = None
            /\ puppetListeners' = puppetListeners \ RemovedListeners
            /\ offCount' = OffCountAfterRemove
            /\ offCallbackList' = OffCallbacksAfterRemove
            /\ ended' = ended \cup {eventStream}
            /\ eventStream' = NoStream
            /\ UNCHANGED puppetListening
  /\ lastOp' = "stop"
  /\ UNCHANGED clientVars
  /\ UNCHANGED << puppetVars, implVars, callStatus, hooked, written, dropped,
                  nextUid, nInputs >>

\* a stop() RPC handler that calls eventStreamManager.stop() without asking
\* busy(): the error thrown with nothing attached ends the handler
StopRpcMutAlwaysStop ==
  /\ IF busy
       THEN /\ puppetListeners' = puppetListeners \ RemovedListeners
            /\ offCount' = OffCountAfterRemove
            /\ offCallbackList' = OffCallbacksAfterRemove
            /\ ended' = ended \cup {eventStream}
            /\ eventStream' = NoStream
            /\ UNCHANGED puppetListening
            /\ readyPayload' = None
            /\ thrown' = None
       ELSE /\ UNCHANGED << sinkVars, offCount, ended, readyPayload >>
            /\ thrown' = "no this.eventStream"
  /\ lastOp' = "stopRpc"
  /\ UNCHANGED clientVars
  /\ UNCHANGED << puppetVars, scanPayload, readyTimeout, loginTimers, sinkTimers,
                  callStatus, hooked, written, dropped, nextUid, nInputs >>

\* the stop() RPC handler, up to its call of puppet.stop()
StopRpc ==
  /\ IF busy
       THEN /\ puppetListeners' = puppetListeners \ RemovedListeners
            /\ offCount' = OffCountAfterRemove
            /\ offCallbackList' = OffCallbacksAfterRemove
            /\ ended' = ended \cup {eventStream}
            /\ eventStream' = NoStream
            /\ UNCHANGED puppetListening
       ELSE UNCHANGED << sinkVars, offCount, ended >>
  /\ readyPayload' = None
  /\ thrown' = None
  /\ lastOp' = "stopRpc"
  /\ UNCHANGED clientVars
  /\ UNCHANGED << puppetVars, scanPayload, readyTimeout, loginTimers, sinkTimers,
                  callStatus, hooked, written, dropped, nextUid, nInputs >>

\* a teardown signal of a stream that carries onStreamingCallEnd()'s
\* listeners; the five handlers have the same body
Signal(s, sig) ==
  /\ s \in hooked
  /\ sig \in TeardownSignals
  /\ IF puppetListening
       THEN /\ puppetListeners' = puppetListeners \ RemovedListeners
            /\ offCount' = OffCountAfterRemove
            /\ offCallbackList' = OffCallbacksAfterRemove
       ELSE UNCHANGED << puppetListeners, offCount, offCallbackList >>
  /\ eventStream' = NoStream
  /\ thrown' = None
  /\ lastOp' = "signal"
  /\ UNCHANGED clientVars
  /\ UNCHANGED << puppetListening, puppetVars, implVars, callVars, dropped,
                  nextUid, nInputs >>

\* The puppet emits an event: the listeners puppetImplementation registered
\* at construction run first, then the sink's listeners.

\* puppet.login(account): the login listener of puppetImplementation clears
\* the saved scan payload and sets the 5 s timer
PuppetLogin(a) ==
  /\ nInputs < MaxInputs
  /\ a \in Accounts
  /\ ~isLoggedIn
  /\ currentUserId' = a
  /\ scanPayload' = None
  /\ LET t == nInputs + 1 IN
       /\ readyTimeout' = t
       /\ loginTimers' = loginTimers \cup {t}
  /\ SetOut(Forward("login", a))
  /\ nInputs' = nInputs + 1
  /\ thrown' = None
  /\ lastOp' = "puppet"
  /\ UNCHANGED clientVars
  /\ UNCHANGED << sinkVars, readyIndicator, readyPayload, sinkTimers,
                  callStatus, hooked, ended, offCount >>

\* the puppet logs out: the logout listener clears the saved ready payload
\* and the timer whose handle readyTimeout holds
PuppetLogout ==
  /\ nInputs < MaxInputs
  /\ isLoggedIn
  /\ readyPayload' = None
  /\ loginTimers' = IF readyTimeout # NoTimer THEN loginTimers \ {readyTimeout}
                    ELSE loginTimers
  /\ SetOut(Forward("logout", currentUserId))
  /\ currentUserId' = None
  /\ readyIndicator' = FALSE
  /\ nInputs' = nInputs + 1
  /\ thrown' = None
  /\ lastOp' = "puppet"
  /\ UNCHANGED clientVars
  /\ UNCHANGED << sinkVars, scanPayload, readyTimeout, sinkTimers,
                  callStatus, hooked, ended, offCount >>

\* the puppet emits ready
PuppetReady ==
  /\ nInputs < MaxInputs
  /\ readyPayload' = ReadyPayload
  /\ readyIndicator' = TRUE
  /\ SetOut(Forward("ready", ReadyPayload))
  /\ nInputs' = nInputs + 1
  /\ thrown' = None
  /\ lastOp' = "puppet"
  /\ UNCHANGED clientVars
  /\ UNCHANGED << sinkVars, currentUserId, scanPayload, readyTimeout, loginTimers,
                  sinkTimers, callStatus, hooked, ended, offCount >>

\* the puppet emits scan
PuppetScan(q) ==
  /\ nInputs < MaxInputs
  /\ q \in ScanPayloads
  /\ scanPayload' = q
  /\ SetOut(Forward("scan", q))
  /\ nInputs' = nInputs + 1
  /\ thrown' = None
  /\ lastOp' = "puppet"
  /\ UNCHANGED clientVars
  /\ UNCHANGED << sinkVars, puppetVars, readyPayload, readyTimeout, loginTimers,
                  sinkTimers, callStatus, hooked, ended, offCount >>

\* the puppet emits an event of another kind
PuppetEmit(kind) ==
  /\ nInputs < MaxInputs
  /\ kind \in OtherEmitKinds
  /\ SetOut(Forward(kind, GenericPayload))
  /\ nInputs' = nInputs + 1
  /\ thrown' = None
  /\ lastOp' = kind
  /\ UNCHANGED clientVars
  /\ UNCHANGED << sinkVars, puppetVars, implVars, callStatus, hooked, ended,
                  offCount >>

\* the 5 s timer of the login listener fires
LoginTimerFire(t) ==
  /\ t \in loginTimers
  /\ loginTimers' = loginTimers \ {t}
  /\ SetOut(IF readyPayload # None
              THEN GrpcEmit(eventStream, Out, "EVENT_TYPE_READY", readyPayload)
              ELSE Out)
  /\ thrown' = None
  /\ lastOp' = "loginTimer"
  /\ UNCHANGED clientVars
  /\ UNCHANGED << sinkVars, puppetVars, scanPayload, readyPayload, readyTimeout,
                  sinkTimers, callStatus, hooked, ended, offCount, nInputs >>

\* the 15 s timer set by start() fires
SinkTimerFire(s) ==
  /\ s \in sinkTimers
  /\ sinkTimers' = sinkTimers \ {s}
  /\ SetOut(GrpcEmit(eventStream, Out, "EVENT_TYPE_READY", ReadyPayload))
  /\ thrown' = None
  /\ lastOp' = "sinkTimer"
  /\ UNCHANGED clientVars
  /\ UNCHANGED << sinkVars, puppetVars, scanPayload, readyPayload, readyTimeout,
                  loginTimers, callStatus, hooked, ended, offCount, nInputs >>

ServerInit ==
  /\ eventStream = NoStream
  /\ puppetListening = FALSE
  /\ offCallbackList = << >>
  /\ puppetListeners = {}
  /\ currentUserId = None
  /\ readyIndicator = FALSE
  /\ scanPayload = None
  /\ readyPayload = None
  /\ readyTimeout = NoTimer
  /\ loginTimers = {}
  /\ sinkTimers = {}
  /\ callStatus = [s \in Streams |-> "none"]
  /\ hooked = {}
  /\ ended = {}
  /\ written = [s \in Streams |-> << >>]
  /\ dropped = {}
  /\ nextUid = 1
  /\ offCount = << >>
  /\ thrown = None
  /\ lastOp = None
  /\ nInputs = 0

ServerNext ==
  \/ Start
  \/ Event
  \/ Stop
  \/ StopRpc
  \/ \E s \in Streams, sig \in TeardownSignals : Signal(s, sig)
  \/ \E a \in Accounts : PuppetLogin(a)
  \/ PuppetLogout
  \/ PuppetReady
  \/ \E q \in ScanPayloads : PuppetScan(q)
  \/ \E k \in OtherEmitKinds : PuppetEmit(k)
  \/ \E t \in 1..MaxInputs : LoginTimerFire(t)
  \/ \E s \in Streams : SinkTimerFire(s)

(***************************************************************************)
(* Client side: reset() and the steps of the session around it.             *)
(***************************************************************************)
SetCtx(c) ==
  /\ waitingForLogin' = c.wl
  /\ waitingForReady' = c.wr
  /\ reconnectIndicator' = c.rec
  /\ cUserId' = c.user
  /\ cReady' = c.ready
  /\ store' = c.st
  /\ dataListeners' = c.dl
  /\ handlers' = c.hs
  /\ inv' = c.inv
  /\ extEvents' = c.ext

\* a finally of the login wait that keeps the gate
LoginFinallyMutKeepGate(c, i) ==
  [c EXCEPT !.wl = FALSE, !.dl = Without(@, << "onLogin", i >>)]

\* the finally of the wait for the login future
LoginFinally(c, i) ==
  [c EXCEPT !.wl = FALSE, !.rec = FALSE,
            !.dl = Without(@, << "onLogin", i >>)]

\* a finally of the ready wait that leaves waitingForReady set
ReadyFinallyMutKeepWaiting(c, i) ==
  [c EXCEPT !.dl = Without(@, << "onReady", i >>),
            !.inv[i].pc = "done", !.inv[i].outcome = "fast"]

\* the finally of the wait for the ready future, and the return of reset()
ReadyFinally(c, i) ==
  [c EXCEPT !.wr = FALSE, !.dl = Without(@, << "onReady", i >>),
            !.inv[i].pc = "done", !.inv[i].outcome = "fast"]

\* reset() goes on behind a wait whose future is resolved
SettleOne(c, i) ==
  LET c1 == IF c.inv[i].pc = "loginWait" /\ c.inv[i].loginResolved
            THEN [LoginFinally(c, i) EXCEPT !.inv[i].pc = "readyWait"]
            ELSE c
  IN IF c1.inv[i].pc = "readyWait" /\ c1.inv[i].readyResolved
     THEN ReadyFinally(c1, i)
     ELSE c1

RECURSIVE Settle(_, _)
Settle(c, i) ==
  IF i > MaxSessionInputs THEN c ELSE Settle(SettleOne(c, i), i + 1)

InProgress(r) == r.pc \notin {"idle", "done"}

\* the invocations in progress are no longer alone with the stream
Disturbed(f, except) ==
  [j \in Invocations |->
     IF j # except /\ InProgress(f[j]) THEN [f[j] EXCEPT !.quiet = FALSE]
     ELSE f[j]]

\* the gate of reset(): a reconnect is in flight
AlreadyReconnectingMutNever == FALSE

AlreadyReconnecting == reconnectIndicator

\* new GrpcManager(): an instance there has not been before
NewManager ==
  LET known == {grpcManager} \cup {managerStops[k] : k \in 1..Len(managerStops)}
  IN 1 + CHOOSE m \in known : \A n \in known : n <= m

\* a reset() that takes the fast path also when the session is logged out
NeedsFullResetMutManagerOnly == grpcManager = NoManager

\* the preconditions of reset(): without a manager or a login, the full reset
NeedsFullReset == grpcManager = NoManager \/ cUserId = None

\* reset() is called, up to its first await or its return
ResetCall(i) ==
  /\ nSession < MaxSessionInputs
  /\ inv[i].pc = "idle"
  /\ \A j \in 1..(i - 1) : inv[j].pc # "idle"
  /\ nSession' = nSession + 1
  /\ IF NeedsFullReset
     THEN /\ inv' = [Disturbed(inv, i) EXCEPT ![i].pc = "full",
                                              ![i].ext0 = Len(extEvents),
                                              ![i].quiet = FALSE]
          /\ fullResets' = fullResets + 1
          /\ UNCHANGED << reconnectIndicator, streamActive, stopStreamCalls >>
     ELSE IF AlreadyReconnecting
     THEN /\ inv' = [inv EXCEPT ![i].pc = "done", ![i].outcome = "noop",
                                ![i].ext0 = Len(extEvents)]
          /\ UNCHANGED << reconnectIndicator, streamActive, stopStreamCalls,
                          fullResets >>
     ELSE /\ reconnectIndicator' = TRUE
          /\ streamActive' = FALSE
          /\ stopStreamCalls' = stopStreamCalls + 1
          /\ inv' = [Disturbed(inv, i) EXCEPT
                       ![i].pc = "load",
                       ![i].ext0 = Len(extEvents),
                       ![i].stops = 1,
                       ![i].mgr0 = grpcManager,
                       ![i].quiet =
                          /\ \A j \in Invocations \ {i} : ~InProgress(inv[j])
                          /\ \A h \in handlers : h.ev.type # "EVENT_TYPE_LOGOUT"]
          /\ UNCHANGED fullResets
  /\ UNCHANGED << grpcManager, cUserId, cReady, waitingForLogin,
                  waitingForReady, disableEventCache, streamSeq, store, dataListeners,
                  handlers, extEvents, startStreamCalls >>
  /\ UNCHANGED << serverVars, lifeVars, bridgeVars, retryVars, cacheVars >>

\* getMiscellaneousStoreData() on the session's store
GetMiscellaneousStoreData == StoreData(store)

\* the watermark is loaded; reset() registers its listeners and calls
\* startStream()
ResetLoad(i) ==
  /\ inv[i].pc = "load"
  /\ LET loaded == GetMiscellaneousStoreData IN
       inv' = [inv EXCEPT
                 ![i].pc = "starting",
                 ![i].accountId = loaded.accountId,
                 ![i].lastEventSeq = loaded.lastEventSeq,
                 ![i].args = << loaded.lastEventSeq, loaded.accountId >>]
  /\ dataListeners' = dataListeners \o << << "onLogin", i >>, << "onReady", i >> >>
  /\ startStreamCalls' = startStreamCalls + 1
  /\ UNCHANGED << grpcManager, cUserId, cReady, reconnectIndicator,
                  waitingForLogin, waitingForReady, disableEventCache, streamSeq, store,
                  streamActive, handlers, extEvents, stopStreamCalls,
                  fullResets, nSession >>
  /\ UNCHANGED << serverVars, lifeVars, bridgeVars, retryVars, cacheVars >>

\* a reset() that releases the gate as soon as the stream has restarted
StartStreamOkMutRelease(i) ==
  /\ inv[i].pc = "starting"
  /\ streamActive' = TRUE
  /\ SetCtx(Settle([Ctx EXCEPT !.wl = TRUE, !.wr = TRUE, !.rec = FALSE,
                               !.inv[i].pc = "loginWait"], 1))
  /\ UNCHANGED << grpcManager, disableEventCache, streamSeq, stopStreamCalls,
                  startStreamCalls, fullResets, nSession >>
  /\ UNCHANGED << serverVars, lifeVars, bridgeVars, retryVars, cacheVars >>

\* startStream() completes: the subscription is active, reset() arms its
\* listeners and waits for the login future
StartStreamOk(i) ==
  /\ inv[i].pc = "starting"
  /\ streamActive' = TRUE
  /\ SetCtx(Settle([Ctx EXCEPT !.wl = TRUE, !.wr = TRUE,
                               !.inv[i].pc = "loginWait"], 1))
  /\ UNCHANGED << grpcManager, disableEventCache, streamSeq, stopStreamCalls,
                  startStreamCalls, fullResets, nSession >>
  /\ UNCHANGED << serverVars, lifeVars, bridgeVars, retryVars, cacheVars >>

\* a reset() that keeps the gate when the budget is exceeded
StartStreamFailMutKeepGate(i, withinBudget) ==
  /\ nSession < MaxSessionInputs
  /\ inv[i].pc = "starting"
  /\ nSession' = nSession + 1
  /\ IF withinBudget
     THEN /\ inv' = [inv EXCEPT ![i].pc = "sleep"]
          /\ UNCHANGED << reconnectIndicator, fullResets >>
     ELSE /\ inv' = [inv EXCEPT ![i].pc = "full"]
          /\ fullResets' = fullResets + 1
          /\ UNCHANGED reconnectIndicator
  /\ UNCHANGED << grpcManager, cUserId, cReady, waitingForLogin,
                  waitingForReady, disableEventCache, streamSeq, store,
                  dataListeners, streamActive, handlers, extEvents,
                  stopStreamCalls, startStreamCalls >>
  /\ UNCHANGED << serverVars, lifeVars, bridgeVars, retryVars, cacheVars >>

\* startStream() rejects or takes more than 30 seconds: within the budget
\* reset() sleeps, beyond the budget it releases the gate and calls the full
\* reset
StartStreamFail(i, withinBudget) ==
  /\ nSession < MaxSessionInputs
  /\ inv[i].pc = "starting"
  /\ nSession' = nSession + 1
  /\ IF withinBudget
     THEN /\ inv' = [inv EXCEPT ![i].pc = "sleep"]
          /\ UNCHANGED << reconnectIndicator, fullResets >>
     ELSE /\ inv' = [inv EXCEPT ![i].pc = "full"]
          /\ reconnectIndicator' = FALSE
          /\ fullResets' = fullResets + 1
  /\ UNCHANGED << grpcManager, cUserId, cReady, waitingForLogin,
                  waitingForReady, disableEventCache, streamSeq, store, dataListeners,
                  streamActive, handlers, extEvents, stopStreamCalls,
                  startStreamCalls >>
  /\ UNCHANGED << serverVars, lifeVars, bridgeVars, retryVars, cacheVars >>

\* a retry that calls stopStream() again before the next attempt
SleepDoneMutStopStream(i) ==
  /\ inv[i].pc = "sleep"
  /\ inv' = [inv EXCEPT ![i].pc = "starting", ![i].stops = @ + 1]
  /\ startStreamCalls' = startStreamCalls + 1
  /\ stopStreamCalls' = stopStreamCalls + 1
  /\ UNCHANGED << grpcManager, cUserId, cReady, reconnectIndicator,
                  waitingForLogin, waitingForReady, disableEventCache, streamSeq, store,
                  dataListeners, streamActive, handlers, extEvents,
                  fullResets, nSession >>
  /\ UNCHANGED << serverVars, lifeVars, bridgeVars, retryVars, cacheVars >>

\* a retry that loads the watermark again for the next attempt
SleepDoneMutReload(i) ==
  /\ inv[i].pc = "sleep"
  /\ inv' = [inv EXCEPT ![i].pc = "starting",
                        ![i].args = << GetMiscellaneousStoreData.lastEventSeq,
                                       GetMiscellaneousStoreData.accountId >>]
  /\ startStreamCalls' = startStreamCalls + 1
  /\ UNCHANGED << grpcManager, cUserId, cReady, reconnectIndicator,
                  waitingForLogin, waitingForReady, disableEventCache, streamSeq, store,
                  dataListeners, streamActive, handlers, extEvents,
                  stopStreamCalls, fullResets, nSession >>
  /\ UNCHANGED << serverVars, lifeVars, bridgeVars, retryVars, cacheVars >>

\* the 5 seconds of sleep are over: the next attempt
SleepDone(i) ==
  /\ inv[i].pc = "sleep"
  /\ inv' = [inv EXCEPT ![i].pc = "starting",
                        ![i].args = << inv[i].lastEventSeq, inv[i].accountId >>]
  /\ startStreamCalls' = startStreamCalls + 1
  /\ UNCHANGED << grpcManager, cUserId, cReady, reconnectIndicator,
                  waitingForLogin, waitingForReady, disableEventCache, streamSeq, store,
                  dataListeners, streamActive, handlers, extEvents,
                  stopStreamCalls, fullResets, nSession >>
  /\ UNCHANGED << serverVars, lifeVars, bridgeVars, retryVars, cacheVars >>

\* the login future is not resolved within ResetLoginTimeout
\* a login wait whose timer never fires
LoginTimeoutMutNever(i) ==
  /\ inv[i].pc = "loginWait"
  /\ FALSE
  /\ UNCHANGED << serverVars, clientVars >>

LoginTimeout(i) ==
  /\ inv[i].pc = "loginWait"
  /\ ~inv[i].loginResolved
  /\ SetCtx([LoginFinally(Ctx, i) EXCEPT !.inv[i].pc = "full"])
  /\ fullResets' = fullResets + 1
  /\ UNCHANGED << grpcManager, disableEventCache, streamSeq, streamActive,
                  stopStreamCalls, startStreamCalls, nSession >>
  /\ UNCHANGED << serverVars, lifeVars, bridgeVars, retryVars, cacheVars >>

\* a reset() for which the timeout of the ready wait is fatal
ReadyTimeoutMutFatal(i) ==
  /\ inv[i].pc = "readyWait"
  /\ ~inv[i].readyResolved
  /\ SetCtx([Ctx EXCEPT !.wr = FALSE, !.dl = Without(@, << "onReady", i >>),
                        !.inv[i].pc = "full"])
  /\ fullResets' = fullResets + 1
  /\ UNCHANGED << grpcManager, disableEventCache, streamSeq, streamActive,
                  stopStreamCalls, startStreamCalls, nSession >>
  /\ UNCHANGED << serverVars, lifeVars, bridgeVars, retryVars, cacheVars >>

\* the ready future is not resolved within ResetReadyTimeout
ReadyTimeout(i) ==
  /\ inv[i].pc = "readyWait"
  /\ ~inv[i].readyResolved
  /\ SetCtx(ReadyFinally(Ctx, i))
  /\ UNCHANGED << grpcManager, disableEventCache, streamSeq, streamActive,
                  stopStreamCalls, startStreamCalls, fullResets, nSession >>
  /\ UNCHANGED << serverVars, lifeVars, bridgeVars, retryVars, cacheVars >>

\* the full reset, super.reset(): the session stops, which logs it out and
\* drops the manager, and starts again with a new manager
FullReset(i) ==
  /\ inv[i].pc = "full"
  /\ grpcManager' = NewManager
  /\ streamActive' = TRUE
  /\ SetCtx([PuppetSessionLogout(Ctx) EXCEPT
               !.wl = FALSE, !.wr = FALSE, !.dl = << >>,
               !.inv[i].pc = "done", !.inv[i].outcome = "full"])
  /\ life' = "started"
  /\ healthCheck' = TRUE
  /\ startResult' = "resolved"
  /\ managerStops' = IF grpcManager # NoManager
                     THEN Append(managerStops, grpcManager)
                     ELSE managerStops
  /\ startArgs' = << GetMiscellaneousStoreData.lastEventSeq,
                     GetMiscellaneousStoreData.accountId >>
  /\ UNCHANGED << disableEventCache, streamSeq, stopStreamCalls, startStreamCalls,
                  fullResets, nSession, options, lastAccess, errorEmits >>
  /\ UNCHANGED << serverVars, bridgeVars, retryVars, cacheVars >>

\* the received event is one a reconnect is waiting for and the bridge is to
\* ignore: a login while waitingForLogin on a logged in session, a ready while
\* waitingForReady on a ready session
Expected(e) ==
  \/ e.type = "EVENT_TYPE_LOGIN" /\ waitingForLogin /\ cUserId # None
  \/ e.type = "EVENT_TYPE_READY" /\ waitingForReady /\ cReady

\* the change of its entity a dirty event reports: the version the server
\* holds when the event is received
Change(e) ==
  IF e.type = "EVENT_TYPE_DIRTY" /\ e.payload.payloadType = "Contact"
  THEN contactVersion[e.payload.payloadId]
  ELSE 0

\* the manager emits data for an event received from the stream:
\* onGrpcStreamEvent() first, then the listeners of reset()
Deliver(e) ==
  /\ nSession < MaxSessionInputs
  /\ grpcManager # NoManager
  /\ streamActive
  /\ nSession' = nSession + 1
  /\ streamSeq' = IF streamSeq = 0 THEN 0 ELSE streamSeq + 1
  /\ LET ev == [type |-> e.type, payload |-> e.payload, seq |-> streamSeq,
                expected |-> Expected(e), change |-> Change(e)]
         c0 == IF e.type = "EVENT_TYPE_LOGOUT"
               THEN [Ctx EXCEPT !.inv = Disturbed(inv, 0)]
               ELSE Ctx
         c1 == OnGrpcStreamEvent(c0, ev, nSession + 1)
         c2 == RunListeners(c1, ev, dataListeners, 1)
     IN SetCtx(Settle(c2, 1)) /\ payloadStore' = c2.ps
  /\ UNCHANGED << grpcManager, disableEventCache, streamActive,
                  stopStreamCalls, startStreamCalls, fullResets >>
  /\ UNCHANGED << contactVersion, reads >>
  /\ UNCHANGED << serverVars, lifeVars, bridgeVars, retryVars >>

\* an onGrpcStreamEvent() call goes on behind its await
HandlerStep(h) ==
  /\ h \in handlers
  /\ SetCtx(Settle(HandlerResume(Ctx, h), 1))
  /\ payloadStore' = HandlerResume(Ctx, h).ps
  /\ UNCHANGED << grpcManager, disableEventCache, streamSeq, streamActive,
                  stopStreamCalls, startStreamCalls, fullResets, nSession >>
  /\ UNCHANGED << contactVersion, reads >>
  /\ UNCHANGED << serverVars, lifeVars, bridgeVars, retryVars >>

\* more than timeoutMilliseconds have passed since the stored timestamp
TimePasses ==
  /\ store.lastEventTimestamp = "fresh"
  /\ store' = [store EXCEPT !.lastEventTimestamp = "stale"]
  /\ UNCHANGED << grpcManager, cUserId, cReady, reconnectIndicator,
                  waitingForLogin, waitingForReady, disableEventCache,
                  dataListeners, streamActive, streamSeq, handlers, inv >>
  /\ UNCHANGED << serverVars, cObsVars, lifeVars, bridgeVars, retryVars, cacheVars >>

NewInvocation ==
  [pc |-> "idle", accountId |-> None, lastEventSeq |-> 0,
   loginResolved |-> FALSE, readyResolved |-> FALSE, mismatch |-> FALSE,
   outcome |-> "none", ext0 |-> 0, quiet |-> TRUE,
   stops |-> 0, mgr0 |-> NoManager, args |-> << 0, None >>]

ValidOptions == [tokenValid |-> TRUE, tlsMatch |-> TRUE]

(***************************************************************************)
(* The retry loop of reset() against the clock.  Times are milliseconds.    *)
(***************************************************************************)
\* the values of options.timeoutSeconds; 0 stands for an absent option
TimeoutOptions == 0..MaxTimeoutSeconds

\* the constructor's this.timeoutMilliseconds
TimeoutMillisecondsOf(opt) == (IF opt = 0 THEN 2 ELSE opt) * 1000 * 60

\* the budget of the retry loop: this.timeoutMilliseconds / 10
RetryBudget(ms) == ms \div 10

\* how long a failing startStream() takes: it rejects at once, after some
\* seconds, or is cut by timeoutPromise() at 30 seconds
AttemptDurations == {0, 1000, 2000, 3000, 30 * 1000}

\* the wait between two attempts
RetrySleep == 5000

RetryIdle ==
  /\ timeoutSeconds = 0
  /\ timeoutMilliseconds = TimeoutMillisecondsOf(0)
  /\ retryClock = 0
  /\ retryPc = "idle"

\* reset() reaches its loop: startTime = Date.now()
RetryBegin ==
  /\ retryPc = "idle"
  /\ retryPc' = "attempt"
  /\ retryClock' = 0
  /\ UNCHANGED << timeoutSeconds, timeoutMilliseconds >>
  /\ UNCHANGED << serverVars, sessionVars, cObsVars, lifeVars, bridgeVars,
                  cacheVars >>

\* startStream() fails after d milliseconds: the catch waits and tries again
\* within the budget and hands over to the full reset beyond it
RetryAttemptFails(d) ==
  /\ retryPc = "attempt"
  /\ retryClock' = retryClock + d
  /\ retryPc' = IF retryClock' < RetryBudget(timeoutMilliseconds)
                THEN "sleep" ELSE "fullReset"
  /\ UNCHANGED << timeoutSeconds, timeoutMilliseconds >>
  /\ UNCHANGED << serverVars, sessionVars, cObsVars, lifeVars, bridgeVars,
                  cacheVars >>

\* the timer of the wait fires
RetrySleepDone ==
  /\ retryPc = "sleep"
  /\ retryClock' = retryClock + RetrySleep
  /\ retryPc' = "attempt"
  /\ UNCHANGED << timeoutSeconds, timeoutMilliseconds >>
  /\ UNCHANGED << serverVars, sessionVars, cObsVars, lifeVars, bridgeVars,
                  cacheVars >>

\* startStream() succeeds after d milliseconds: break
RetryAttemptSucceeds(d) ==
  /\ retryPc = "attempt"
  /\ retryClock' = retryClock + d
  /\ retryPc' = "streaming"
  /\ UNCHANGED << timeoutSeconds, timeoutMilliseconds >>
  /\ UNCHANGED << serverVars, sessionVars, cObsVars, lifeVars, bridgeVars,
                  cacheVars >>

RetryNext ==
  \/ RetryBegin
  \/ \E d \in AttemptDurations : RetryAttemptFails(d)
  \/ RetrySleepDone
  \/ \E d \in AttemptDurations \ {30 * 1000} : RetryAttemptSucceeds(d)

\* the session is started and its stream is open, or it is stopped
ClientCore ==
  /\ bridgeSent = NoEvent
  /\ bridgeWire = NoWire
  /\ bridgeLocal = NoLocal
  /\ life \in {"started", "stopped"}
  /\ options = ValidOptions
  /\ healthCheck = (life = "started")
  /\ startResult = IF life = "started" THEN "resolved" ELSE None
  /\ lastAccess = None
  /\ managerStops = << >>
  /\ startArgs = << >>
  /\ errorEmits = 0
  /\ grpcManager = IF life = "started" THEN 1 ELSE NoManager
  /\ disableEventCache \in BOOLEAN
  /\ cUserId \in {u \in {None, "A1"} : life = "stopped" => u = None}
  /\ cReady = (cUserId # None)
  /\ reconnectIndicator = FALSE
  /\ waitingForLogin = FALSE
  /\ waitingForReady = FALSE
  /\ store = [lastEventSeq |-> 0, lastEventTimestamp |-> None,
              accountId |-> IF disableEventCache THEN None ELSE cUserId]
  /\ dataListeners = << >>
  /\ streamActive = (life = "started")
  /\ streamSeq \in {q \in {0, 1} : disableEventCache => q = 0}
  /\ handlers = {}
  /\ inv = [i \in Invocations |-> NewInvocation]
  /\ extEvents = << >>
  /\ stopStreamCalls = 0
  /\ startStreamCalls = 0
  /\ fullResets = 0
  /\ nSession = 0

\* the caches of a session that has read nothing
EmptyPayloadStore == [t \in CachedTypes |-> [id \in PayloadIds |-> Absent]]

\* no payload cached, no read under way
CacheIdle ==
  /\ payloadStore = EmptyPayloadStore
  /\ contactVersion = [id \in PayloadIds |-> 1]
  /\ reads = {}

\* the session as the claims about the server leave it
\* the session with no retry loop under way
ClientInit == ClientCore /\ RetryIdle /\ CacheIdle

ClientIdle ==
  /\ ClientInit
  /\ life = "started"
  /\ ~disableEventCache
  /\ streamSeq = 0
  /\ cUserId = None
  /\ ~cReady

\* the age of the last event passes the timeout while no handler and no
\* reset() is in progress
TimePassesIdle ==
  /\ handlers = {}
  /\ \A i \in Invocations : inv[i].pc \in {"idle", "done"}
  /\ TimePasses

ClientNext ==
  \/ TimePassesIdle
  \/ \E i \in Invocations : ResetCall(i)
  \/ \E i \in Invocations : ResetLoad(i)
  \/ \E i \in Invocations : StartStreamOk(i)
  \/ \E i \in Invocations, b \in BOOLEAN : StartStreamFail(i, b)
  \/ \E i \in Invocations : SleepDone(i)
  \/ \E i \in Invocations : LoginTimeout(i)
  \/ \E i \in Invocations : ReadyTimeout(i)
  \/ \E i \in Invocations : FullReset(i)
  \/ \E e \in StreamEvents : Deliver(e)
  \/ \E h \in handlers : HandlerStep(h)

(***************************************************************************)
(* Client side: start and stop of the session, and reads of the manager.    *)
(***************************************************************************)
\* GrpcManager.start(): rejects for a token the server does not accept and
\* for a client without TLS against a server with TLS, resolves otherwise
ManagerStartResolves(o) == o.tokenValid /\ o.tlsMatch

\* onStart() up to its await of getMiscellaneousStoreData() and of the
\* manager's start()
OnStartBegin ==
  /\ nSession < MaxSessionInputs
  /\ life \in {"stopped", "failed"}
  /\ nSession' = nSession + 1
  /\ waitingForLogin' = FALSE
  /\ waitingForReady' = FALSE
  /\ grpcManager' = NewManager
  /\ dataListeners' = << >>
  /\ streamActive' = FALSE
  /\ life' = "starting"
  /\ startArgs' = << >>
  /\ UNCHANGED << cUserId, cReady, reconnectIndicator, disableEventCache,
                  store, streamSeq, handlers, inv, extEvents, stopStreamCalls,
                  startStreamCalls, fullResets, options, healthCheck,
                  startResult, lastAccess, managerStops, errorEmits >>
  /\ UNCHANGED << serverVars, bridgeVars, retryVars, cacheVars >>

\* onStart() resumes behind its await of getMiscellaneousStoreData() and
\* calls the manager's start() with the watermark it read
OnStartLoad ==
  /\ life = "starting"
  /\ startArgs = << >>
  /\ startArgs' = << GetMiscellaneousStoreData.lastEventSeq,
                     GetMiscellaneousStoreData.accountId >>
  /\ UNCHANGED << sessionVars, cObsVars, options, healthCheck, life, nSession,
                  startResult, lastAccess, managerStops, errorEmits >>
  /\ UNCHANGED << serverVars, bridgeVars, retryVars, cacheVars >>

\* an onStart() that starts the health check whatever the manager's start()
\* did
OnStartEndMutAlwaysHealthCheck ==
  /\ life = "starting"
  /\ startArgs # << >>
  /\ healthCheck' = TRUE
  /\ IF ManagerStartResolves(options)
     THEN /\ streamActive' = TRUE
          /\ life' = "started"
          /\ startResult' = "resolved"
     ELSE /\ life' = "failed"
          /\ startResult' = "rejected"
          /\ UNCHANGED streamActive
  /\ UNCHANGED << grpcManager, cUserId, cReady, reconnectIndicator,
                  waitingForLogin, waitingForReady, disableEventCache, store,
                  dataListeners, streamSeq, handlers, inv, cObsVars, options,
                  lastAccess, managerStops, startArgs, errorEmits >>
  /\ UNCHANGED << serverVars, bridgeVars, retryVars, cacheVars >>

\* the manager's start() resolves, and onStart() starts the health check, or
\* it rejects, and so does onStart()
OnStartEnd ==
  /\ life = "starting"
  /\ startArgs # << >>
  /\ IF ManagerStartResolves(options)
     THEN /\ streamActive' = TRUE
          /\ healthCheck' = TRUE
          /\ life' = "started"
          /\ startResult' = "resolved"
     ELSE /\ life' = "failed"
          /\ startResult' = "rejected"
          /\ UNCHANGED << streamActive, healthCheck >>
  /\ UNCHANGED << grpcManager, cUserId, cReady, reconnectIndicator,
                  waitingForLogin, waitingForReady, disableEventCache, store,
                  dataListeners, streamSeq, handlers, inv, cObsVars, options,
                  lastAccess, managerStops, startArgs, errorEmits >>
  /\ UNCHANGED << serverVars, bridgeVars, retryVars, cacheVars >>

\* an onStop() that drops the manager only behind the manager's stop()
OnStopBeginMutLate ==
  /\ nSession < MaxSessionInputs
  /\ life \in {"started", "failed"}
  /\ nSession' = nSession + 1
  /\ SetCtx([PuppetSessionLogout(Ctx) EXCEPT !.dl = << >>])
  /\ streamActive' = FALSE
  /\ life' = "stopping"
  /\ managerStops' = Append(managerStops, grpcManager)
  /\ UNCHANGED << grpcManager, disableEventCache, streamSeq, stopStreamCalls,
                  startStreamCalls, fullResets, options, healthCheck,
                  startResult, lastAccess, errorEmits, startArgs >>
  /\ UNCHANGED << serverVars, bridgeVars, retryVars, cacheVars >>

\* the session stops: Puppet.stop() logs it out, onStop() drops the manager
\* and awaits the manager's stop()
OnStopBegin ==
  /\ nSession < MaxSessionInputs
  /\ life \in {"started", "failed"}
  /\ nSession' = nSession + 1
  /\ SetCtx([PuppetSessionLogout(Ctx) EXCEPT !.dl = << >>])
  /\ grpcManager' = NoManager
  /\ streamActive' = FALSE
  /\ life' = "stopping"
  /\ managerStops' = Append(managerStops, grpcManager)
  /\ UNCHANGED << disableEventCache, streamSeq, stopStreamCalls,
                  startStreamCalls, fullResets, options, healthCheck,
                  startResult, lastAccess, errorEmits, startArgs >>
  /\ UNCHANGED << serverVars, bridgeVars, retryVars, cacheVars >>

\* an onStop() that reads the manager through the getter
OnStopAgainMutGetter ==
  /\ nSession < MaxSessionInputs
  /\ grpcManager = NoManager
  /\ nSession' = nSession + 1
  /\ lastAccess' = "threw"
  /\ errorEmits' = errorEmits + 1
  /\ UNCHANGED << sessionVars, extEvents, stopStreamCalls, startStreamCalls,
                  fullResets, life, options, healthCheck, startResult,
                  managerStops, startArgs >>
  /\ UNCHANGED << serverVars, bridgeVars, retryVars, cacheVars >>

\* onStop() is called while the session has no manager: it was never started,
\* is stopped, or an earlier onStop() still awaits the manager's stop(); the
\* call skips the manager and stops the health check
OnStopAgain ==
  /\ nSession < MaxSessionInputs
  /\ grpcManager = NoManager
  /\ nSession' = nSession + 1
  /\ healthCheck' = FALSE
  /\ UNCHANGED << sessionVars, extEvents, stopStreamCalls, startStreamCalls,
                  fullResets, life, options, startResult, lastAccess,
                  errorEmits, managerStops, startArgs >>
  /\ UNCHANGED << serverVars, bridgeVars, retryVars, cacheVars >>

\* the manager's stop() resolves, and onStop() stops the health check, or it
\* rejects, and so does onStop()
OnStopEnd(resolves) ==
  /\ life = "stopping"
  /\ life' = "stopped"
  /\ healthCheck' = IF resolves THEN FALSE ELSE healthCheck
  /\ UNCHANGED << sessionVars, cObsVars, options, startResult, lastAccess, managerStops, startArgs,
                  errorEmits >>
  /\ UNCHANGED << serverVars, bridgeVars, retryVars, cacheVars >>

\* the getter grpcManager: without a manager it emits error and throws
GrpcManagerGetter == IF grpcManager = NoManager THEN "threw" ELSE "returned"

\* this.grpcManager is read
Access ==
  /\ nSession < MaxSessionInputs
  /\ nSession' = nSession + 1
  /\ lastAccess' = GrpcManagerGetter
  /\ errorEmits' = IF GrpcManagerGetter = "threw" THEN errorEmits + 1
                   ELSE errorEmits
  /\ UNCHANGED << sessionVars, extEvents, stopStreamCalls, startStreamCalls,
                  fullResets, life, options, healthCheck, startResult,
                  managerStops, startArgs >>
  /\ UNCHANGED << serverVars, bridgeVars, retryVars, cacheVars >>

\* the events of the manager other than data that bridgeGrpcEventStream()
\* listens to
ManagerSignals == {"error", "end", "cancel"}

\* a bridge that calls reset() on an error of the manager
ManagerEmitMutReset(sig) ==
  /\ nSession < MaxSessionInputs
  /\ grpcManager # NoManager
  /\ sig \in ManagerSignals
  /\ nSession' = nSession + 1
  /\ errorEmits' = IF sig = "error" THEN errorEmits + 1 ELSE errorEmits
  /\ IF sig = "error"
     THEN /\ reconnectIndicator' = TRUE
          /\ streamActive' = FALSE
          /\ stopStreamCalls' = stopStreamCalls + 1
     ELSE UNCHANGED << reconnectIndicator, streamActive, stopStreamCalls >>
  /\ UNCHANGED << grpcManager, cUserId, cReady, waitingForLogin,
                  waitingForReady, disableEventCache, store, dataListeners,
                  streamSeq, handlers, inv, extEvents, startStreamCalls,
                  fullResets, life, options, healthCheck, startResult,
                  lastAccess, managerStops, startArgs >>
  /\ UNCHANGED << serverVars, bridgeVars, retryVars, cacheVars >>

\* the manager emits error, end or cancel: the listeners of
\* bridgeGrpcEventStream() emit a local error for error and log the others
ManagerEmit(sig) ==
  /\ nSession < MaxSessionInputs
  /\ grpcManager # NoManager
  /\ sig \in ManagerSignals
  /\ nSession' = nSession + 1
  /\ errorEmits' = IF sig = "error" THEN errorEmits + 1 ELSE errorEmits
  /\ UNCHANGED << sessionVars, extEvents, stopStreamCalls, startStreamCalls,
                  fullResets, life, options, healthCheck, startResult,
                  lastAccess, managerStops, startArgs >>
  /\ UNCHANGED << serverVars, bridgeVars, retryVars, cacheVars >>

\* the session is stopped, started, or its start was rejected
LifecycleInit ==
  /\ ServerInit
  /\ RetryIdle
  /\ CacheIdle
  /\ bridgeSent = NoEvent
  /\ bridgeWire = NoWire
  /\ bridgeLocal = NoLocal
  /\ life \in {"started", "stopped"}
  /\ options \in [tokenValid : BOOLEAN, tlsMatch : BOOLEAN]
  /\ life = "started" => ManagerStartResolves(options)
  /\ healthCheck = (life = "started")
  /\ startResult = IF life = "started" THEN "resolved" ELSE None
  /\ lastAccess = None
  /\ managerStops = << >>
  /\ startArgs = << >>
  /\ errorEmits = 0
  /\ grpcManager = IF life = "started" THEN 1 ELSE NoManager
  /\ disableEventCache \in BOOLEAN
  /\ cUserId \in {u \in {None, "A1"} : life = "stopped" => u = None}
  /\ cReady = (cUserId # None)
  /\ reconnectIndicator = FALSE
  /\ waitingForLogin = FALSE
  /\ waitingForReady = FALSE
  /\ store = [lastEventSeq |-> 0, lastEventTimestamp |-> None,
              accountId |-> IF disableEventCache THEN None ELSE cUserId]
  /\ dataListeners = << >>
  /\ streamActive = (life = "started")
  /\ streamSeq \in {q \in {0, 1} : disableEventCache => q = 0}
  /\ handlers = {}
  /\ inv = [i \in Invocations |-> NewInvocation]
  /\ extEvents = << >>
  /\ stopStreamCalls = 0
  /\ startStreamCalls = 0
  /\ fullResets = 0
  /\ nSession = 0

LifecycleNext ==
  \/ TimePasses
  \/ OnStopAgain
  \/ \E sig \in ManagerSignals : ManagerEmit(sig)
  \/ OnStartBegin
  \/ OnStartLoad
  \/ OnStartEnd
  \/ OnStopBegin
  \/ \E b \in BOOLEAN : OnStopEnd(b)
  \/ Access
  \/ \E e \in StreamEvents : Deliver(e)
  \/ \E h \in handlers : HandlerStep(h)

(***************************************************************************)
(* The bridge of an event: the sink's listener, the wire, the client's      *)
(* switch.  A payload is a JavaScript object with the fields contactId and  *)
(* data, each a string or undefined.                                        *)
(***************************************************************************)
Undefined == "undefined"
PayloadFields == {"contactId", "data"}
PayloadValues == {Undefined, "A1", "text"}
Payloads == [PayloadFields -> PayloadValues]

\* obj.f of a JavaScript object
Read(obj, f) == IF f \in DOMAIN obj THEN obj[f] ELSE Undefined

\* JSON.stringify() of an object: the fields that are undefined are left out
JSONStringifyObject(obj) ==
  << "json", [f \in {g \in DOMAIN obj : obj[g] # Undefined} |-> obj[f]] >>

\* JSON.parse() of what JSON.stringify() made
JSONParse(s) == s[2]

\* the event types of the wire, with the two types the sink never sends
EventTypes ==
  {EventTypeOf(k) : k \in ForwardedKinds}
    \cup {"EVENT_TYPE_RESET", "EVENT_TYPE_UNSPECIFIED"}

\* a switch of onGrpcStreamEvent() with the cases of tag and tag-group
\* exchanged
LocalKindOfMutSwapped(type) ==
  CASE type = "EVENT_TYPE_TAG"       -> "tag-group"
    [] type = "EVENT_TYPE_TAG_GROUP" -> "tag"
    [] OTHER -> None

\* the local event kind of the switch of onGrpcStreamEvent(); None for the
\* types it only logs
LocalKindOf(type) ==
  CASE type = "EVENT_TYPE_DONG"          -> "dong"
    [] type = "EVENT_TYPE_ERROR"         -> "error"
    [] type = "EVENT_TYPE_HEARTBEAT"     -> "heartbeat"
    [] type = "EVENT_TYPE_FRIENDSHIP"    -> "friendship"
    [] type = "EVENT_TYPE_LOGIN"         -> "login"
    [] type = "EVENT_TYPE_LOGOUT"        -> "logout"
    [] type = "EVENT_TYPE_DIRTY"         -> "dirty"
    [] type = "EVENT_TYPE_MESSAGE"       -> "message"
    [] type = "EVENT_TYPE_POST"          -> "post"
    [] type = "EVENT_TYPE_POST_COMMENT"  -> "post-comment"
    [] type = "EVENT_TYPE_POST_TAP"      -> "post-tap"
    [] type = "EVENT_TYPE_READY"         -> "ready"
    [] type = "EVENT_TYPE_ROOM_INVITE"   -> "room-invite"
    [] type = "EVENT_TYPE_ROOM_JOIN"     -> "room-join"
    [] type = "EVENT_TYPE_ROOM_LEAVE"    -> "room-leave"
    [] type = "EVENT_TYPE_ROOM_TOPIC"    -> "room-topic"
    [] type = "EVENT_TYPE_ROOM_ANNOUNCE" -> "room-announce"
    [] type = "EVENT_TYPE_SCAN"          -> "scan"
    [] type = "EVENT_TYPE_TAG"           -> "tag"
    [] type = "EVENT_TYPE_TAG_GROUP"     -> "tag-group"
    [] type = "EVENT_TYPE_VERIFY_CODE"   -> "verify-code"
    [] OTHER                             -> None

\* what the switch hands on for a received event: login(contactId),
\* logout(data), or the emit of the parsed payload
LocalEmit(ev) ==
  LET kind == LocalKindOf(ev.type)
      obj == JSONParse(ev.payload)
  IN CASE kind = None -> NoEvent
       [] kind = "login" -> [kind |-> kind, arg |-> Read(obj, "contactId")]
       [] kind = "logout" -> [kind |-> kind, arg |-> Read(obj, "data")]
       [] OTHER -> [kind |-> kind, payload |-> obj]

\* the puppet of the server emits an event; the sink's listener of its kind,
\* if there is one, puts it on the stream
BridgeForward(kind, obj) ==
  /\ bridgeSent' = [kind |-> kind, payload |-> obj]
  /\ bridgeWire' = IF kind \in ForwardedKinds
                   THEN [type |-> EventTypeOf(kind),
                         payload |-> JSONStringifyObject(obj)]
                   ELSE NoWire
  /\ bridgeLocal' = NoLocal
  /\ UNCHANGED << serverVars, sessionVars, cObsVars, lifeVars, retryVars,
                  cacheVars >>

\* a server sends an event of any type
BridgeInject(type, obj) ==
  /\ bridgeSent' = NoEvent
  /\ bridgeWire' = [type |-> type, payload |-> JSONStringifyObject(obj)]
  /\ bridgeLocal' = NoLocal
  /\ UNCHANGED << serverVars, sessionVars, cObsVars, lifeVars, retryVars,
                  cacheVars >>

\* the session receives the event of the stream
BridgeReceive ==
  /\ bridgeWire.type # None
  /\ bridgeLocal.received = None
  /\ bridgeLocal' = [received |-> bridgeWire.type, emitted |-> LocalEmit(bridgeWire)]
  /\ UNCHANGED << bridgeSent, bridgeWire >>
  /\ UNCHANGED << serverVars, sessionVars, cObsVars, lifeVars, retryVars,
                  cacheVars >>

BridgeNext ==
  \/ \E kind \in KindSet, obj \in Payloads : BridgeForward(kind, obj)
  \/ \E type \in EventTypes, obj \in Payloads : BridgeInject(type, obj)
  \/ BridgeReceive

vars == << serverVars, clientVars >>

Init == ServerInit /\ ClientIdle

Next == ServerNext

Spec == Init /\ [][Next]_vars

ResetInit == ServerInit /\ ClientInit

ResetNext == ClientNext

ResetSpec == ResetInit /\ [][ResetNext]_vars

LifecycleSpec == LifecycleInit /\ [][LifecycleNext]_vars

BridgeSpec == Init /\ [][BridgeNext]_vars

\* reset() with its timers firing, on a session with the event cache
\* disabled, where onGrpcStreamEvent() has no await before its switch
ResetLiveInit == ResetInit /\ disableEventCache

ResetLiveNext ==
  \/ \E i \in Invocations : ResetCall(i)
  \/ \E i \in Invocations : ResetLoad(i)
  \/ \E i \in Invocations : StartStreamOk(i)
  \/ \E i \in Invocations, b \in BOOLEAN : StartStreamFail(i, b)
  \/ \E i \in Invocations : SleepDone(i)
  \/ \E i \in Invocations : LoginTimeout(i)
  \/ \E i \in Invocations : ReadyTimeout(i)
  \/ \E i \in Invocations : FullReset(i)
  \/ \E e \in StreamEvents : Deliver(e)

\* every await of reset() settles: the read of the store, each attempt (cut
\* by timeoutPromise() at 30 seconds), the 5 second wait, the login wait (30
\* seconds), the ready wait (20 seconds) and the hand-over to super.reset().
\* Some step of some invocation is taken as long as one is possible.
ResetFairness ==
  WF_vars(\E i \in Invocations :
            \/ ResetLoad(i)
            \/ StartStreamOk(i)
            \/ \E b \in BOOLEAN : StartStreamFail(i, b)
            \/ SleepDone(i)
            \/ LoginTimeout(i)
            \/ ReadyTimeout(i)
            \/ FullReset(i))

ResetLiveSpec == ResetLiveInit /\ [][ResetLiveNext]_vars /\ ResetFairness

\* a session constructed with any value of the option, before reset()
RetryInit ==
  /\ ServerInit
  /\ ClientCore
  /\ life = "started"
  /\ ~disableEventCache
  /\ streamSeq = 0
  /\ cUserId = "A1"
  /\ timeoutSeconds \in TimeoutOptions
  /\ timeoutMilliseconds = TimeoutMillisecondsOf(timeoutSeconds)
  /\ retryClock = 0
  /\ retryPc = "idle"
  /\ CacheIdle

RetrySpec == RetryInit /\ [][RetryNext]_vars

(***************************************************************************)
(* Client side: the payload cache.  A dirty event deletes the entry of its  *)
(* entity; contactRawPayload() reads the cache, fetches from the server on  *)
(* a miss and writes what it fetched.  The store is used through its calls  *)
(* in puppet-service.ts: get() answers with the entry held at the call,     *)
(* set() and delete() take effect at the call, and each completes at a      *)
(* later turn of the event loop.  A payload is identified by the version of *)
(* the entity it was fetched at.                                            *)
(***************************************************************************)
\* a contactRawPayload() call: its number, the contact id, where it is, what
\* get() answered and what the server sent
NewRead(n, id, cached) ==
  [n |-> n, id |-> id, pc |-> "get", cached |-> cached, payload |-> Absent,
   result |-> Absent]

\* the frame of the steps that leave the session proper alone
SessionFrame ==
  /\ UNCHANGED << grpcManager, cUserId, cReady, reconnectIndicator,
                  waitingForLogin, waitingForReady, disableEventCache, store,
                  dataListeners, streamActive, streamSeq, handlers, inv,
                  extEvents, stopStreamCalls, startStreamCalls, fullResets >>
  /\ UNCHANGED << serverVars, lifeVars, bridgeVars, retryVars >>

\* the contact changes on the server
ContactChange(id) ==
  /\ nSession < MaxSessionInputs
  /\ nSession' = nSession + 1
  /\ contactVersion' = [contactVersion EXCEPT ![id] = @ + 1]
  /\ UNCHANGED << payloadStore, reads >>
  /\ SessionFrame

\* contactRawPayload(id) is called: it calls get(id) of the contact cache
ContactRawPayloadCall(id) ==
  /\ nSession < MaxSessionInputs
  /\ grpcManager # NoManager
  /\ nSession' = nSession + 1
  /\ reads' = reads \cup {NewRead(nSession + 1, id, payloadStore["Contact"][id])}
  /\ UNCHANGED << payloadStore, contactVersion >>
  /\ SessionFrame

\* get() has completed: a hit returns the cached payload, a miss sends the
\* ContactPayloadRequest
ContactRawPayloadGot(r) ==
  /\ r \in reads
  /\ r.pc = "get"
  /\ reads' = (reads \ {r}) \cup
                {IF r.cached # Absent
                 THEN [r EXCEPT !.pc = "done", !.result = r.cached]
                 ELSE [r EXCEPT !.pc = "fetch"]}
  /\ UNCHANGED << payloadStore, contactVersion, nSession >>
  /\ SessionFrame

\* the server answers the request with the payload it holds
ContactPayloadResponse(r) ==
  /\ r \in reads
  /\ r.pc = "fetch"
  /\ reads' = (reads \ {r}) \cup
                {[r EXCEPT !.pc = "response", !.payload = contactVersion[r.id]]}
  /\ UNCHANGED << payloadStore, contactVersion, nSession >>
  /\ SessionFrame

\* the response has arrived: set(id, payload) of the contact cache, and the
\* payload is returned
ContactRawPayloadSet(r) ==
  /\ r \in reads
  /\ r.pc = "response"
  /\ payloadStore' = [payloadStore EXCEPT !["Contact"][r.id] = r.payload]
  /\ reads' = (reads \ {r}) \cup
                {[r EXCEPT !.pc = "done", !.result = r.payload]}
  /\ UNCHANGED << contactVersion, nSession >>
  /\ SessionFrame

\* the caches of a session that has read every entity but the contacts
ReadPayloadStore ==
  [t \in CachedTypes |->
     [id \in PayloadIds |-> IF t = "Contact" THEN Absent ELSE 1]]

\* a started, logged in session with the event cache, which has read no
\* contact yet
CacheInit ==
  /\ ServerInit
  /\ ClientCore
  /\ RetryIdle
  /\ life = "started"
  /\ cUserId = "A1"
  /\ ~disableEventCache
  /\ payloadStore = ReadPayloadStore
  /\ contactVersion = [id \in PayloadIds |-> 1]
  /\ reads = {}

CacheNext ==
  \/ \E id \in PayloadIds : ContactChange(id)
  \/ \E id \in PayloadIds : ContactRawPayloadCall(id)
  \/ \E r \in reads : ContactRawPayloadGot(r)
  \/ \E r \in reads : ContactPayloadResponse(r)
  \/ \E r \in reads : ContactRawPayloadSet(r)
  \/ \E e \in DirtyEvents : Deliver(e)
  \/ \E h \in handlers : HandlerStep(h)

CacheSpec == CacheInit /\ [][CacheNext]_vars

(***************************************************************************)
(* Claims about the Event Stream Sink, checked under Spec.                  *)
(***************************************************************************)
Idle ==
  /\ eventStream = NoStream
  /\ puppetListeners = {}
  /\ offCallbackList = << >>

\* the streams something of the sink is attached for: the handle in
\* eventStream, the streams whose listeners are registered on the puppet and
\* the streams whose off callbacks are still listed
AttachedHandles ==
  {s \in Streams : s = eventStream}
    \cup {l.gen : l \in puppetListeners}
    \cup {offCallbackList[i].gen : i \in 1..Len(offCallbackList)}

SyntheticHeartbeat(ev) ==
  /\ ev.type = "EVENT_TYPE_HEARTBEAT"
  /\ ev.payload = JSONStringify(ConnectHeartbeatPayload)

\* a step in which a new stream was passed to start() or event()
NewCallStep == callStatus' # callStatus

\* a step that attaches a stream
AttachStep == eventStream = NoStream /\ eventStream' # NoStream

\* in the state, a puppet event of every forwarded kind is written once, to
\* the attached handle
Functional ==
  \A k \in ForwardedKinds :
    /\ ListenerCount(k) = 1
    /\ \A s \in Streams :
         Len(Forward(k, GenericPayload).written[s])
           = Len(written[s]) + (IF s = eventStream THEN 1 ELSE 0)

\* C1: in every reachable state at most one stream handle is attached to the
\* puppet instance: the sink's handle, its listeners on the puppet and its
\* off callbacks belong to at most one stream.
C1_AtMostOneHandle == Cardinality(AttachedHandles) <= 1

\* C1 witness: a handle is attached after an earlier handle had been attached
\* and a further call has been made.
C1_Witness ==
  /\ eventStream # NoStream
  /\ Cardinality(hooked) >= 2
  /\ nInputs = MaxInputs

\* C2: a new call made while a handle is attached fails with a conflict
\* error (start() throws "can not set twice"; event() emits ALREADY_EXISTS on
\* the new call only), the sink's handle, listeners and written events are
\* unchanged, and the first handle still gets the puppet's events.
C2_SecondAttachRejected ==
  [][ (eventStream # NoStream /\ NewCallStep) =>
        /\ UNCHANGED << sinkVars, written, hooked, ended, sinkTimers, offCount >>
        /\ lastOp' = "start" =>
             /\ thrown' = "can not set twice"
             /\ \A s \in Streams : callStatus'[s] # "ALREADY_EXISTS"
                                     \/ callStatus[s] = "ALREADY_EXISTS"
        /\ lastOp' = "event" =>
             /\ callStatus'[NextStream] = "ALREADY_EXISTS"
             /\ \A s \in Streams \ {NextStream} : callStatus'[s] = callStatus[s]
             /\ thrown' = None
        /\ Functional'
    ]_vars

\* C2 witness: a call was rejected with ALREADY_EXISTS and afterwards a puppet
\* event was written to the handle that was attached first.
C2_Witness ==
  /\ eventStream = 1
  /\ callStatus[2] = "ALREADY_EXISTS"
  /\ lastOp = "puppet"
  /\ Len(written[1]) >= 2
  /\ written[2] = << >>

\* C3: the first event written to a handle is the synthetic heartbeat of
\* start(); no puppet event, synthesized login, ready or saved scan event
\* precedes it.
C3_HeartbeatFirst ==
  \A s \in Streams : written[s] # << >> => SyntheticHeartbeat(written[s][1])

\* C3 witness: a handle whose attach emitted heartbeat, login and the saved
\* scan payload.
C3_Witness ==
  \E s \in Streams :
    /\ Len(written[s]) >= 3
    /\ written[s][2].type = "EVENT_TYPE_LOGIN"
    /\ written[s][3].type = "EVENT_TYPE_SCAN"

\* C4: an attach made while the puppet is logged in as account A writes
\* [heartbeat, login(A)] to the new handle, the puppet's login state being
\* untouched; an attach made while it is not logged in writes no login event.
C4_LoginAtAttach ==
  [][ AttachStep =>
        LET s == eventStream' IN
          /\ UNCHANGED currentUserId
          /\ written[s] = << >>
          /\ SyntheticHeartbeat(written'[s][1])
          /\ isLoggedIn =>
               /\ Len(written'[s]) >= 2
               /\ written'[s][2].type = "EVENT_TYPE_LOGIN"
               /\ written'[s][2].payload = JSONStringify(currentUserId)
               /\ \A i \in 3..Len(written'[s]) : written'[s][i].type # "EVENT_TYPE_LOGIN"
          /\ ~isLoggedIn =>
               \A i \in 1..Len(written'[s]) : written'[s][i].type # "EVENT_TYPE_LOGIN"
    ]_vars

\* C4 witness: the state right after an attach made while logged in as A2.
C4_Witness ==
  /\ lastOp \in {"start", "event"}
  /\ thrown = None
  /\ eventStream # NoStream
  /\ currentUserId = "A2"
  /\ Len(written[eventStream]) = 2
  /\ written[eventStream][2].payload = JSONStringify("A2")

\* C5: after any teardown signal the sink is Idle, every off callback ever
\* registered has been invoked exactly once, no error is raised, and a signal
\* that finds the sink Idle changes nothing.
C5_TeardownOnce ==
  /\ [](\A l \in DOMAIN offCount :
          offCount[l] = IF l \in puppetListeners THEN 0 ELSE 1)
  /\ [][ lastOp' = "signal" =>
        /\ Idle'
        /\ \A l \in DOMAIN offCount' : offCount'[l] = 1
        /\ thrown' = None
        /\ UNCHANGED << written, dropped, hooked, ended, callStatus, puppetVars,
                        implVars >>
        /\ Idle => UNCHANGED << sinkVars, offCount >>
       ]_vars

\* C5 witness: a signal arrived at an Idle sink whose listeners had been
\* registered twice.
C5_Witness ==
  /\ lastOp = "signal"
  /\ Cardinality(hooked) >= 2
  /\ Idle
  /\ ended = {}

\* C6: a grpcEmit() call made while no handle is attached is dropped: the
\* call changes nothing of the sink or of any handle, and its event is never
\* written to a handle, also not to one attached afterwards.
C6_DroppedNeverWritten ==
  /\ [](\A s \in Streams : \A i \in 1..Len(written[s]) :
          written[s][i].uid \notin dropped)
  /\ [][ dropped' # dropped =>
           /\ eventStream = NoStream
           /\ UNCHANGED << sinkVars, callVars, offCount >>
       ]_vars

\* C6 witness: an event was dropped and a handle attached afterwards has
\* been written to.
C6_Witness ==
  \E s \in Streams :
    /\ dropped # {}
    /\ written[s] # << >>
    /\ \E u \in dropped : u < written[s][1].uid

(***************************************************************************)
(* Claims about reset() of the Puppet Session, checked under ResetSpec.     *)
(***************************************************************************)
\* a step in which invocation i of reset() is called
ResetCalled(i) == inv[i].pc = "idle" /\ inv'[i].pc # "idle"

\* a step in which invocation i of reset() returns
ResetReturned(i) == inv[i].pc # "done" /\ inv'[i].pc = "done"

\* the call of invocation i returned at once and left the session as it was
ResetNoOp(i) ==
  /\ inv'[i].pc = "done"
  /\ inv'[i].outcome = "noop"
  /\ \A j \in Invocations \ {i} : inv'[j] = inv[j]
  /\ UNCHANGED << grpcManager, cUserId, cReady, reconnectIndicator,
                  waitingForLogin, waitingForReady, store, dataListeners,
                  streamActive, handlers, extEvents, stopStreamCalls,
                  startStreamCalls, fullResets >>

\* C7 as stated: a call of reset() while the reconnecting flag is set is a
\* no-op: no stopStream(), no startStream(), no listener registered, no flag
\* changed, no full reset.
C7_NoOpWhileReconnecting ==
  [][ \A i \in Invocations :
        ResetCalled(i) /\ reconnectIndicator => ResetNoOp(i) ]_vars

\* C7, amended: a call of reset() while the reconnecting flag is set, the
\* manager exists and the session is logged in is a no-op: no stopStream(), no
\* startStream(), no listener registered, no flag changed, no full reset.
C7_NoOpWhileReconnectingLoggedIn ==
  [][ \A i \in Invocations :
        /\ ResetCalled(i)
        /\ reconnectIndicator
        /\ grpcManager # NoManager
        /\ cUserId # None
        => ResetNoOp(i) ]_vars

C7_Witness ==
  \E i \in Invocations : inv[i].outcome = "noop" /\ reconnectIndicator

\* the invocation is at the stream restart, the login wait or the ready wait
Reconnecting(r) ==
  r.pc \in {"load", "starting", "sleep", "loginWait", "readyWait"}

\* the invocation is at the stream restart or the login wait
HoldsGate(r) == r.pc \in {"load", "starting", "sleep", "loginWait"}

\* C8 as stated: no two invocations of reset() are at the same time past the
\* gate and before their completion (stream restart, login wait or ready wait).
C8_OneReconnect ==
  \A i, j \in Invocations :
    i # j => ~(Reconnecting(inv[i]) /\ Reconnecting(inv[j]))

\* C8, amended: no two invocations of reset() are at the same time past the
\* gate and before the end of their login wait (stream restart or login wait);
\* exactly then the reconnecting flag is set.
C8_OneReconnectUntilLogin ==
  /\ \A i, j \in Invocations :
       i # j => ~(HoldsGate(inv[i]) /\ HoldsGate(inv[j]))
  /\ reconnectIndicator <=> \E i \in Invocations : HoldsGate(inv[i])

C8_Witness ==
  \E i, j \in Invocations :
    inv[i].pc = "readyWait" /\ inv[j].pc = "loginWait"

\* the login and logout events emitted to the session's listeners since
\* invocation i was called
EmittedSince(i) ==
  {k \in (inv[i].ext0 + 1)..Len(extEvents) :
     extEvents[k][1] \in {"login", "logout"}}

\* invocation i, whose login future is resolved in time, goes on to the ready
\* wait and returns from there, never by the full reset
FastPathStep(i) ==
  /\ inv[i].pc = "loginWait" /\ inv'[i].loginResolved
       => inv'[i].pc \in {"readyWait", "done"} /\ fullResets' = fullResets
  /\ inv[i].pc = "readyWait" => inv'[i].pc \in {"readyWait", "done"}
  /\ inv[i].pc = "readyWait" /\ inv'[i].pc = "done"
       => inv'[i].outcome = "fast" /\ fullResets' = fullResets

C10_MismatchNeverFast ==
  \A i \in Invocations :
    inv[i].mismatch =>
      /\ ~inv[i].loginResolved
      /\ inv[i].pc \in {"loginWait", "full", "done"}
      /\ inv[i].pc = "done" => inv[i].outcome = "full"

C10_Witness ==
  \E i \in Invocations :
    inv[i].mismatch /\ inv[i].pc = "done" /\ inv[i].outcome = "full"

\* invocation i has its login listener registered
Listening(i) ==
  \E k \in 1..Len(dataListeners) : dataListeners[k] = << "onLogin", i >>

\* C11: when the startStream() attempts of reset() fail until the retry budget
\* is exhausted, reset() releases the reconnecting flag and calls the full
\* reset; an invocation reaches the login wait, the ready wait or the fast
\* return only by a step in which startStream() completed and the stream is
\* open.
C11_BudgetExhausted ==
  [][ \A i \in Invocations :
        /\ inv[i].pc = "starting" /\ inv'[i].pc = "full"
             => ~reconnectIndicator' /\ fullResets' = fullResets + 1
        /\ inv[i].pc \in {"idle", "load", "sleep", "full"}
             => /\ inv'[i].pc \notin {"loginWait", "readyWait"}
                /\ inv'[i].outcome # "fast"
        /\ inv[i].pc = "starting"
             /\ (inv'[i].pc \in {"loginWait", "readyWait"}
                   \/ inv'[i].outcome = "fast")
             => streamActive' ]_vars

C11_Witness ==
  \E i \in Invocations :
    /\ inv[i].pc = "full"
    /\ Listening(i)
    /\ startStreamCalls = 2
    /\ ~reconnectIndicator

\* C12: a call of reset() without a manager or with the session logged out
\* goes to the full reset at once: the reconnecting flag is not set,
\* stopStream() and startStream() are not called, no data listener is
\* registered; from the full reset the invocation only returns.
C12_DirectFullReset ==
  [][ \A i \in Invocations :
        /\ ResetCalled(i) /\ (grpcManager = NoManager \/ cUserId = None)
             => /\ inv'[i].pc = "full"
                /\ fullResets' = fullResets + 1
                /\ UNCHANGED << reconnectIndicator, stopStreamCalls,
                                startStreamCalls, dataListeners, streamActive >>
        /\ inv[i].pc = "full" /\ inv'[i].pc # "full"
             => inv'[i].pc = "done" /\ inv'[i].outcome = "full" ]_vars

\* the first invocation found no manager, the second one a session logged out
C12_Witness ==
  /\ inv[1].outcome = "full"
  /\ grpcManager = 1
  /\ cUserId = None
  /\ inv[2].pc = "full"
  /\ stopStreamCalls = 0
  /\ startStreamCalls = 0

AccessStep == Access

\* C14: once onStop() has been invoked, every read of the manager throws and
\* emits an error event, from the moment the teardown starts and whether the
\* manager's stop() resolves or rejects, until the session is started again.
C14_NoManagerAfterStop ==
  /\ life \in {"stopping", "stopped"} => grpcManager = NoManager
  /\ [][ (life \in {"stopping", "stopped"} /\ AccessStep)
           => (lastAccess' = "threw" /\ errorEmits' = errorEmits + 1) ]_vars

C14_Witness ==
  /\ life = "stopped"
  /\ healthCheck
  /\ lastAccess = "threw"
  /\ errorEmits = 1
  /\ options = ValidOptions

\* C18: onStart() resolves exactly when the manager's start() does, which
\* rejects for an invalid token and for a client without TLS against a server
\* with TLS; when it rejects, the caller sees the rejection and the health
\* check is not started.
C18_StartFailurePropagates ==
  [][ life = "starting" /\ life' # "starting"
        => IF options.tokenValid /\ options.tlsMatch
           THEN life' = "started" /\ startResult' = "resolved" /\ healthCheck'
           ELSE /\ life' = "failed"
                /\ startResult' = "rejected"
                /\ healthCheck' = healthCheck
                /\ ~streamActive' ]_vars

C18_Witness ==
  /\ life = "failed"
  /\ startResult = "rejected"
  /\ ~healthCheck
  /\ options.tokenValid
  /\ ~options.tlsMatch

\* C15 as stated: the stored lastEventSeq never changes to a smaller value,
\* under any interleaving of the handlers of received events, except when the
\* watermark is cleared by a logout or by a login for another account.
C15_WatermarkNeverRegresses ==
  [][ \/ store'.lastEventSeq >= store.lastEventSeq
      \/ store'.lastEventSeq = 0 ]_vars

\* the numbers of the received events behind the local login, logout and
\* ready events, in the order of the local events
LocalOrder ==
  SelectSeq([k \in 1..Len(extEvents) |-> extEvents[k][3]], LAMBDA n : n # 0)

\* C16 as stated, for the client: the local events of two received events are
\* emitted in the order in which the events were received, whatever their
\* kinds and with or without sequence numbers.
C16_LocalOrder ==
  \A k, l \in 1..Len(LocalOrder) : k < l => LocalOrder[k] < LocalOrder[l]

\* two objects are equal by value: every field reads the same
EqualByValue(a, b) == \A f \in PayloadFields : Read(a, f) = Read(b, f)

\* C17: a puppet event of a kind other than reset, forwarded by the sink and
\* received by the session, comes out with the same kind and a payload equal
\* by value; login comes out as login(contactId), logout as logout(data).
C17_RoundTrip ==
  bridgeSent.kind \notin {None, "reset"} /\ bridgeLocal.received # None
    => /\ bridgeLocal.emitted.kind = bridgeSent.kind
       /\ CASE bridgeSent.kind = "login" ->
                 bridgeLocal.emitted.arg = Read(bridgeSent.payload, "contactId")
            [] bridgeSent.kind = "logout" ->
                 bridgeLocal.emitted.arg = Read(bridgeSent.payload, "data")
            [] OTHER ->
                 EqualByValue(bridgeLocal.emitted.payload, bridgeSent.payload)

C17_Witness ==
  /\ bridgeSent.kind = "tag-group"
  /\ bridgeSent.payload = [contactId |-> Undefined, data |-> "text"]
  /\ bridgeLocal.received = "EVENT_TYPE_TAG_GROUP"
  /\ bridgeLocal.emitted = [kind |-> "tag-group", payload |-> [data |-> "text"]]

\* C19: the sink is Idle or Attached: its listeners are registered on the
\* puppet exactly when a handle is attached, and while one is attached there
\* is exactly one listener for every kind other than reset and none for
\* reset, all of them of the attached handle, after any number of cycles.
C19_IdleOrAttached ==
  IF eventStream = NoStream
    THEN Idle
    ELSE /\ puppetListeners = NewListeners(eventStream)
         /\ \A k \in KindSet :
              ListenerCount(k) = (IF k = "reset" THEN 0 ELSE 1)
         /\ Len(offCallbackList) = Cardinality(puppetListeners)

\* C19 witness: the third handle is attached after the first was detached by
\* stop() and the second by a teardown signal.
C19_Witness ==
  /\ eventStream = 3
  /\ hooked = {1, 2, 3}
  /\ 1 \in ended
  /\ 2 \notin ended
  /\ puppetListeners # {}

\* the session emits no local reset for a reset event of the stream
NoLocalReset ==
  \A obj \in Payloads :
    LocalEmit([type |-> "EVENT_TYPE_RESET",
               payload |-> JSONStringifyObject(obj)]).kind = None

\* C20: reset is never transmitted: the sink has no listener for the puppet's
\* reset event, no event of the type reset is ever written to a handle, a
\* reset of the puppet writes nothing, and the session emits no local reset
\* for a reset event it receives.
C20_ResetNeverTransmitted ==
  /\ [](/\ \A l \in puppetListeners : l.kind # "reset"
        /\ \A s \in Streams : \A k \in 1..Len(written[s]) :
             written[s][k].type \notin {"EVENT_TYPE_RESET", None}
        /\ NoLocalReset)
  /\ [][lastOp' = "reset" => written' = written /\ dropped' = dropped]_vars

\* C20 witness: the puppet has emitted reset while a handle that has been
\* written to was attached.
C20_Witness ==
  /\ lastOp = "reset"
  /\ eventStream # NoStream
  /\ written[eventStream] # << >>

\* the types of the events written to a stream, in order
WrittenTypes(s) == [k \in 1..Len(written[s]) |-> written[s][k].type]

\* C21: an attach writes no ready event itself: it writes the heartbeat, then
\* the login event if the puppet is logged in (the event() handler may add the
\* saved scan event), and sets the 15 s timer exactly when the puppet is ready; the timer's ready event is appended to what the
\* attached stream has got, so it comes behind the heartbeat and the login
\* event of the attach.
C21_ReadyAfterGrace ==
  /\ [][AttachStep =>
          /\ LET w == written'[eventStream'] IN
               /\ Len(w) >= 1 /\ SyntheticHeartbeat(w[1])
               /\ isLoggedIn => Len(w) >= 2 /\ w[2].type = "EVENT_TYPE_LOGIN"
               /\ \A k \in 1..Len(w) : w[k].type # "EVENT_TYPE_READY"
          /\ sinkTimers' = (IF readyIndicator THEN sinkTimers \cup {eventStream'}
                            ELSE sinkTimers)]_vars
  /\ [][lastOp' = "sinkTimer" /\ eventStream # NoStream =>
          /\ Len(written'[eventStream]) = Len(written[eventStream]) + 1
          /\ SubSeq(written'[eventStream], 1, Len(written[eventStream]))
               = written[eventStream]
          /\ written'[eventStream][Len(written'[eventStream])].type
               = "EVENT_TYPE_READY"]_vars
  /\ [](\A s \in Streams : \A k \in 1..Len(written[s]) :
          written[s][k].type = "EVENT_TYPE_READY" =>
            k > 1 /\ SyntheticHeartbeat(written[s][1]))

\* C21 witness: the timer of an attach made while the puppet was logged in and
\* ready has fired: the stream has got heartbeat, login, ready.
C21_Witness ==
  /\ lastOp = "sinkTimer"
  /\ eventStream # NoStream
  /\ WrittenTypes(eventStream)
       = << "EVENT_TYPE_HEARTBEAT", "EVENT_TYPE_LOGIN", "EVENT_TYPE_READY" >>

\* C22: stop() of the sink with a handle attached removes every listener of
\* the sink from the puppet, ends the handle and leaves the sink Idle; with
\* nothing attached it throws and changes nothing; the stop RPC calls it only
\* when the sink is busy and so never fails for want of a subscriber.
C22_Detach ==
  /\ [][lastOp' = "stop" =>
          IF eventStream # NoStream
            THEN /\ thrown' = None
                 /\ Idle'
                 /\ ended' = ended \cup {eventStream}
            ELSE /\ thrown' = "no this.eventStream"
                 /\ UNCHANGED << sinkVars, puppetVars, implVars, callVars,
                                 dropped, nextUid, offCount >>]_vars
  /\ [][lastOp' = "stopRpc" =>
          /\ thrown' = None
          /\ IF eventStream # NoStream
               THEN Idle' /\ ended' = ended \cup {eventStream}
               ELSE UNCHANGED << sinkVars, callVars, offCount >>]_vars

\* C22 witness: stop() has thrown with nothing attached, after an earlier
\* stop() or stop RPC had detached a handle.
C22_Witness ==
  /\ lastOp = "stop"
  /\ thrown = "no this.eventStream"
  /\ ended # {}

\* C23 as stated: an invocation of reset() that returns on the fast path has
\* called stopStream() exactly once, has not run the full reset (the manager's
\* stop() and start()), and returns with the manager instance it was called
\* with and with the session logged in, as it was at the call.
C23_OnlySubscription ==
  [][ \A i \in Invocations :
        ResetReturned(i) /\ inv'[i].outcome = "fast"
          => /\ inv'[i].stops = 1
             /\ fullResets' = fullResets
             /\ grpcManager' = inv'[i].mgr0
             /\ cUserId' # None ]_vars

\* C23, amended: the same, if no other invocation of reset() was in progress
\* and no logout event was pending or received between the call and the
\* return.
C23_OnlySubscriptionUndisturbed ==
  [][ \A i \in Invocations :
        /\ ResetReturned(i) /\ inv'[i].outcome = "fast"
             => inv'[i].stops = 1 /\ fullResets' = fullResets
        /\ ResetReturned(i) /\ inv'[i].outcome = "fast" /\ inv'[i].quiet
             => /\ grpcManager' = inv'[i].mgr0
                /\ cUserId' # None ]_vars

\* C23 witness: an undisturbed invocation has returned on the fast path after a
\* login event and a ready event of the restarted stream.
C23_Witness ==
  \E i \in Invocations :
    /\ inv[i].pc = "done"
    /\ inv[i].outcome = "fast"
    /\ inv[i].quiet
    /\ inv[i].loginResolved
    /\ inv[i].readyResolved
    /\ inv[i].stops = 1
    /\ grpcManager = inv[i].mgr0
    /\ stopStreamCalls = 1

\* C24: a startStream() attempt of reset() that fails within the budget leads
\* to the sleep and not to the full reset; after the sleep reset() calls
\* startStream() again, with the lastEventSeq and accountId it loaded before
\* the loop whatever the store holds by then; a successful attempt ends the
\* loop, and startStream() is called from nowhere but the loop.
C24_RetryLoop ==
  /\ [][ \A i \in Invocations :
           /\ inv[i].pc = "starting" /\ inv'[i].pc = "sleep"
                => fullResets' = fullResets /\ grpcManager' = grpcManager
           /\ inv[i].pc = "sleep" /\ inv'[i] # inv[i]
                => /\ inv'[i].pc = "starting"
                   /\ startStreamCalls' = startStreamCalls + 1
           /\ inv[i].pc \notin {"idle", "load"}
                => /\ inv'[i].lastEventSeq = inv[i].lastEventSeq
                   /\ inv'[i].accountId = inv[i].accountId
                   /\ inv'[i].args = inv[i].args ]_vars
  /\ [][ startStreamCalls' # startStreamCalls
           => /\ startStreamCalls' = startStreamCalls + 1
              /\ \E i \in Invocations :
                   /\ inv[i].pc \in {"load", "sleep"}
                   /\ inv'[i].pc = "starting" ]_vars
  /\ [](\A i \in Invocations :
          inv[i].pc \in {"starting", "sleep", "loginWait", "readyWait"}
            => inv[i].args = << inv[i].lastEventSeq, inv[i].accountId >>)

\* C24 witness: the second attempt of an invocation has succeeded, and a
\* read of the store no longer gives the lastEventSeq the invocation loaded.
C24_Witness ==
  \E i \in Invocations :
    /\ inv[i].pc = "loginWait"
    /\ startStreamCalls = 2
    /\ stopStreamCalls = 1
    /\ fullResets = 0
    /\ GetMiscellaneousStoreData.lastEventSeq # inv[i].lastEventSeq
    /\ inv[i].args = << inv[i].lastEventSeq, inv[i].accountId >>

\* the invocations whose login future, or ready future, a step resolves
LoginResolvedBy == {i \in Invocations : inv'[i].loginResolved # inv[i].loginResolved}
ReadyResolvedBy == {i \in Invocations : inv'[i].readyResolved # inv[i].readyResolved}

\* the listener of the name of invocation i is attached to the manager
Attached(name, i) ==
  \E k \in 1..Len(dataListeners) : dataListeners[k] = << name, i >>

\* C25: when the manager emits data, the login flag changes and a login future
\* is resolved only for a login event received while waitingForLogin is true,
\* and the flag is false afterwards; the same for ready events, the ready flag
\* and the ready futures; an event resolves at most one future of each kind,
\* that of an attached listener.
C25_ArmedOnce ==
  [][ \A e \in StreamEvents : Deliver(e) =>
        /\ waitingForLogin' # waitingForLogin \/ LoginResolvedBy # {}
             => /\ e.type = "EVENT_TYPE_LOGIN"
                /\ waitingForLogin /\ ~waitingForLogin'
                /\ Cardinality(LoginResolvedBy) <= 1
                /\ \A i \in LoginResolvedBy : Attached("onLogin", i)
        /\ waitingForReady' # waitingForReady \/ ReadyResolvedBy # {}
             => /\ e.type = "EVENT_TYPE_READY"
                /\ waitingForReady /\ ~waitingForReady'
                /\ Cardinality(ReadyResolvedBy) <= 1
                /\ \A i \in ReadyResolvedBy : Attached("onReady", i)
        /\ e.type = "EVENT_TYPE_LOGIN" /\ waitingForLogin
             /\ (\E i \in Invocations : Attached("onLogin", i))
             => ~waitingForLogin'
        /\ e.type = "EVENT_TYPE_READY" /\ waitingForReady
             /\ (\E i \in Invocations : Attached("onReady", i))
             => ~waitingForReady' ]_vars

\* C25 witness: a login event has resolved the login future of an invocation
\* and cleared waitingForLogin; the ready flag and the ready future are as
\* they were.
C25_Witness ==
  \E i \in Invocations :
    /\ inv[i].pc = "readyWait"
    /\ inv[i].loginResolved
    /\ ~inv[i].readyResolved
    /\ ~waitingForLogin
    /\ waitingForReady
    /\ Attached("onReady", i)

\* C26: when an invocation of reset() returns, or hands over to the full
\* reset, neither its login listener nor its ready listener is attached to
\* the manager.
C26_ListenersRemoved ==
  [][ \A i \in Invocations :
        inv[i].pc \notin {"done", "full"} /\ inv'[i].pc \in {"done", "full"}
          => ~Attached("onLogin", i)' /\ ~Attached("onReady", i)' ]_vars

\* C27: an error, end or cancel event of the manager starts no reconnect: the
\* step emits one local error for error and nothing for end and cancel, and
\* leaves the reconnecting flag, the reset() invocations, the event
\* subscription, the manager and the counts of stopStream(), startStream() and
\* full resets as they are.
C27_NoAutomaticRetry ==
  [][ \A sig \in ManagerSignals : ManagerEmit(sig) =>
        /\ errorEmits' = errorEmits + (IF sig = "error" THEN 1 ELSE 0)
        /\ UNCHANGED << reconnectIndicator, inv, streamActive, grpcManager,
                        stopStreamCalls, startStreamCalls, fullResets,
                        waitingForLogin, waitingForReady, dataListeners,
                        cUserId, life >> ]_vars

\* C27 witness: the manager of a started, logged in session has emitted error,
\* the session has emitted it as a local error, and no reconnect is in flight.
C27_Witness ==
  /\ life = "started"
  /\ cUserId # None
  /\ errorEmits = 1
  /\ lastAccess = None
  /\ ~reconnectIndicator
  /\ streamActive
  /\ stopStreamCalls = 0

\* no manager instance had its stop() called twice
StoppedOnce ==
  \A k, l \in 1..Len(managerStops) :
    k # l => managerStops[k] # managerStops[l]


Stale == store.lastEventTimestamp # "fresh"

\* C29: whenever the last event is older than the timeout or no timestamp is
\* stored, a read of the watermark gives no lastEventSeq and, with the event
\* cache enabled, the stored accountId; a reset() that loads the watermark
\* then calls startStream() without a sequence and keeps the stored accountId
\* for its account check, and the start of a full reset calls the manager's
\* start() without a sequence and with the stored accountId.
C29_NoStaleResume ==
  /\ [](Stale =>
          /\ GetMiscellaneousStoreData.lastEventSeq = 0
          /\ ~disableEventCache
               => GetMiscellaneousStoreData.accountId = store.accountId)
  /\ [][ \A i \in Invocations :
           /\ ResetLoad(i) /\ Stale =>
                /\ inv'[i].args[1] = 0
                /\ inv'[i].lastEventSeq = 0
                /\ ~disableEventCache =>
                     /\ inv'[i].args[2] = store.accountId
                     /\ inv'[i].accountId = store.accountId
           /\ FullReset(i) /\ Stale =>
                /\ startArgs'[1] = 0
                /\ ~disableEventCache => startArgs'[2] = store.accountId ]_vars

\* C29 witness: a sequence number is stored for account A1, its event is
\* older than the timeout, and a reset() has loaded the watermark and called
\* startStream() without a sequence and with A1.
C29_Witness ==
  \E i \in Invocations :
    /\ inv[i].pc = "loginWait"
    /\ inv[i].args = << 0, "A1" >>
    /\ inv[i].accountId = "A1"
    /\ store.lastEventSeq = 1
    /\ store.lastEventTimestamp = "stale"
    /\ store.accountId = "A1"

\* onStart() on a stale watermark: the manager's start() gets no sequence and,
\* with the event cache enabled, the stored accountId
OnStartStale ==
  [][ OnStartLoad /\ Stale =>
        /\ startArgs'[1] = 0
        /\ ~disableEventCache => startArgs'[2] = store.accountId ]_vars


\* two minutes, and what counts as about two minutes
TwoMinutes == 2 * 60 * 1000
AboutTwoMinutes == (TwoMinutes - TwoMinutes \div 10)..(TwoMinutes + TwoMinutes \div 10)

\* C31: the budget of the retry loop is a tenth of this.timeoutMilliseconds,
\* and for a session without the option timeoutSeconds it is about two
\* minutes: such a session hands over to the full reset only when about two
\* minutes or more have passed since the loop began.
C31_RetryBudget ==
  /\ RetryBudget(timeoutMilliseconds) * 10 = timeoutMilliseconds
  /\ timeoutSeconds = 0 =>
       /\ RetryBudget(timeoutMilliseconds) \in AboutTwoMinutes
       /\ retryPc = "fullReset" => retryClock >= TwoMinutes - TwoMinutes \div 10


\* the login event e matches what invocation i loaded: reset() compares the
\* accounts only when it loaded a non-empty accountId
Matching(e, i) ==
  /\ e.type = "EVENT_TYPE_LOGIN"
  /\ Truthy(inv[i].accountId) => e.payload = inv[i].accountId

PassedToLogin(hs, id) ==
  \E h \in hs : h.id = id /\ h.pc \in {"loginGet", "loginSet"}

\* the local events emitted for event number id
EmittedFor(ext, id) == {k \in 1..Len(ext) : ext[k][3] = id}

\* C33: a login event received while a reconnect waits for login on a logged
\* in session is never passed to login() and nothing is emitted for it, and
\* for a ready event received while a reconnect waits for ready on a ready
\* session nothing is emitted, in the step that receives it and in every
\* later step of its handler.
C33_NoReEmit ==
  [][ /\ \A e \in StreamEvents :
           Deliver(e) /\ Expected(e)
             => /\ ~PassedToLogin(handlers', nSession + 1)
                /\ EmittedFor(extEvents', nSession + 1) = {}
      /\ \A h \in handlers :
           HandlerStep(h) /\ h.ev.expected
             => /\ ~PassedToLogin(handlers', h.id)
                /\ EmittedFor(extEvents', h.id) = {} ]_vars


\* C34: a teardown signal raised by a handle other than the attached one
\* leaves the attached handle, its puppet listeners and its off callbacks as
\* they are.
C34_StaleSignalHarmless ==
  [][ \A s \in Streams, sig \in TeardownSignals :
        Signal(s, sig) /\ eventStream # NoStream /\ s # eventStream
          => /\ eventStream' = eventStream
             /\ puppetListeners' = puppetListeners
             /\ offCallbackList' = offCallbackList ]_vars


\* C35: the ready timer set by the attach of a handle writes to that handle
\* only: when it fires, what any other handle has got is unchanged.
C35_ReadyToOwnHandle ==
  [][ \A s \in Streams :
        SinkTimerFire(s) =>
          \A u \in Streams \ {s} : written'[u] = written[u] ]_vars


\* the step in which invocation i returns or hands over to the full reset
Leaves(i) == Reconnecting(inv[i]) /\ inv'[i].pc \in {"done", "full"}

\* C36 as stated: the invocations past the gate all return or hand over to the
\* full reset in the end, the reconnecting flag is false again and again, and
\* it is false after the step in which an invocation returns or hands over.
C36_GateReleased ==
  /\ <>[](\A i \in Invocations : ~Reconnecting(inv[i]))
  /\ []<>(~reconnectIndicator)
  /\ [][ \A i \in Invocations : Leaves(i) => ~reconnectIndicator' ]_vars

\* C36 amended: as stated, but at the return of an invocation from its ready
\* wait the flag may be set again, by a later invocation that has passed the
\* gate meanwhile: after the step in which an invocation returns or hands
\* over, the flag is set only if another invocation holds it.
C36_GateReleasedByOwner ==
  /\ <>[](\A i \in Invocations : ~Reconnecting(inv[i]))
  /\ []<>(~reconnectIndicator)
  /\ [][ \A i \in Invocations :
           Leaves(i) /\ reconnectIndicator'
             => \E j \in Invocations \ {i} : HoldsGate(inv'[j]) ]_vars

\* C36 witness: startStream() has failed twice, no event has been received,
\* and the invocation has released the flag and handed over to the full reset.
C36_Witness ==
  \E i \in Invocations :
    /\ inv[i].pc = "full"
    /\ startStreamCalls = 2
    /\ extEvents = << >>
    /\ ~streamActive
    /\ ~reconnectIndicator
    /\ \A j \in Invocations \ {i} : inv[j].pc = "idle"


\* no invocation of reset() is in progress
NoReset == \A i \in Invocations : ~InProgress(inv[i])

EmitsDirty(h) ==
  /\ HandlerStep(h)
  /\ h.pc = "fastDirty"
  /\ h.ev.payload.payloadType \in CachedTypes

\* C38: when the dirty event of a cached entity with id X is emitted to the
\* session's listeners, the cache of its type holds no entry for X, so that a
\* read of X a listener starts in the emit misses the cache and fetches from
\* the server.
C38_DeletedBeforeEmit ==
  [][ \A h \in handlers :
        EmitsDirty(h)
        => payloadStore'[h.ev.payload.payloadType][h.ev.payload.payloadId]
             = Absent ]_vars

\* C39: once the dirty event for contact X has been processed, the contact
\* cache holds no payload for X that the server sent before the change the
\* event reports, however the steps of contactRawPayload(X) interleave with
\* the handler.
C39_NoStalePayload ==
  \A k \in 1..Len(extEvents) :
    extEvents[k][1] = "dirty" /\ extEvents[k][2].payloadType = "Contact"
    => LET held == payloadStore["Contact"][extEvents[k][2].payloadId]
       IN held = Absent \/ held >= extEvents[k][4]

\* C40: once onStop() has finished, by the manager's stop() resolving or by
\* its rejecting, the interval of startHealthCheck() is not running, so that
\* no ding('healthCheck') reads the manager of a session that has none.
C40_HealthCheckStopped ==
  life = "stopped" => ~healthCheck

\* C30: onStop() called while the session has no manager does not throw, emits
\* no error and calls no stop() of a manager; no manager instance ever has its
\* stop() called twice.
C30_StopIdempotent ==
  /\ [][ OnStopAgain =>
           /\ errorEmits' = errorEmits
           /\ lastAccess' = lastAccess
           /\ managerStops' = managerStops
           /\ UNCHANGED << grpcManager, life >> ]_vars
  /\ []StoppedOnce

\* C30 witness: onStop() has been called again while the first onStop() of a
\* started session awaits the manager's stop(): the health check is stopped,
\* the manager was stopped once, nothing threw.
C30_Witness ==
  /\ life = "stopping"
  /\ startResult = "resolved"
  /\ ~healthCheck
  /\ managerStops = << 1 >>
  /\ errorEmits = 0

====
